---- MODULE Spec2Model ----
(***************************************************************************)
(* UUID48: time-sortable identifier generators and their Base64URL codec.  *)
(*                                                                         *)
(* The repository holds three programs that share one design:              *)
(*   "uuid48" PAX-Timestamp48/src (timestamp.js, base64url.js, index.js):  *)
(*            the 48-bit generator, its codec and its format facade;       *)
(*   "node"   Timestamp48/gpt-5.js lines 1-74: the blocking 128-bit        *)
(*            generator;                                                   *)
(*   "web"    Timestamp48/gpt-5.js lines 76-156: the non-blocking 128-bit  *)
(*            generator.                                                   *)
(* A behaviour runs one of them (variable program); "codec" and "pack"     *)
(* drive the pure functions of base64url.js and _packUuidV7 on inputs      *)
(* drawn in Init.  Of index.js, "batch" is a TimestampGenerator on which   *)
(* generateBatch is called, "module" the module with its defaultGenerator  *)
(* and the age helpers, "facade" drives validate and convert and           *)
(* "construct" the two constructors on inputs drawn in Init, and "fixed"   *)
(* drives the operations on 6-byte buffers and 8-character strings.        *)
(* SpecThreads                                                             *)
(* runs invocations of UUID48Timestamp.generate() that are serialized or   *)
(* interleaved.  SpecInstance runs a UUID48Timestamp that its user calls   *)
(* directly ("instance"), recording what each call found, and the          *)
(* conversions between timestamps and buffers ("bytes"); FairInstance is   *)
(* SpecInstance with a clock that is read again and again.                 *)
(* SpecGenerators runs a program that holds three generators, the module's *)
(* defaultGenerator among them, and calls every operation of index.js.     *)
(*                                                                         *)
(* Millisecond values are BigInts in the source and exceed the integers    *)
(* TLC computes with, so a millisecond value t is the record               *)
(* [hi |-> t \div 2^24, lo |-> t % 2^24]; comparison, +1 and the byte      *)
(* extraction are defined on that representation.                          *)
(***************************************************************************)
EXTENDS Integers, Sequences, FiniteSets, TLC

VARIABLES
    program,                \* which of the programs this behaviour runs
    lastSystemTime,         \* UUID48Timestamp.lastSystemTime
    subMillisecondCounter,  \* UUID48Timestamp.subMillisecondCounter
    maxSubMs,               \* UUID48Timestamp.maxSubMs
    waitStrategy,           \* UUID48Timestamp.waitStrategy
    state,                  \* gpt-5.js _state: [lastMs, seq12]
    pc,                     \* position of the running call
    format,                 \* format argument of the generate(format) in flight
    calls,                  \* clock-reading entries of generate so far
    systemTime,             \* Date.now() as the last entry of generate read it
    arg,                    \* input of the pure-function drivers
    ret,                    \* outcome of the last completed call
    prev,                   \* what the last successful call before ret returned
    defaultFormat,          \* TimestampGenerator.defaultFormat
    batch,                  \* the generateBatch call in progress or just ended
    answer,                 \* the last age query, or bufferToTimestamp call
    threads,                \* unsynchronized invocations of generate()
    call,                   \* the UUID48Timestamp.generate() call in flight
    generators              \* the UUID48Timestamp objects of SpecGenerators

vars == <<program, lastSystemTime, subMillisecondCounter, maxSubMs,
          waitStrategy, state, pc, format, calls, systemTime, arg, ret,
          prev, defaultFormat, batch, answer, threads, call, generators>>

(***************************************************************************)
(* Bounds of the model.                                                    *)
(***************************************************************************)
MaxTick == 2
MaxCalls == 4
MaxModulus == 2
MaxLen == 3
MaxBatch == 2

(***************************************************************************)
(* Millisecond values.                                                     *)
(***************************************************************************)
Limb == 256 * 256 * 256

Ms(h, l) == [hi |-> h, lo |-> l]

MsLess(a, b) == a.hi < b.hi \/ (a.hi = b.hi /\ a.lo < b.lo)

MsLeq(a, b) == a = b \/ MsLess(a, b)

MsInc(a) == IF a.lo = Limb - 1 THEN Ms(a.hi + 1, 0) ELSE Ms(a.hi, a.lo + 1)

\* 0xFFFFFFFFFFFFn
maxValue == Ms(Limb - 1, Limb - 1)

\* Date.now(): readings at the epoch, next to the 2^24 carry, next to the
\* 48-bit limit and past it.
ClockValues ==
    {Ms(0, l) : l \in 0..MaxTick}
    \cup {Ms(0, Limb - 1), Ms(1, 0)}
    \cup {Ms(Limb - 1, Limb - 2), Ms(Limb - 1, Limb - 1), Ms(Limb, 0), Ms(Limb, 1)}

\* The bytes of _timestampToBuffer taken from the low end: byte i holds
\* bits 8i+7..8i
MsByteLittleEndian(t, i) ==
    CASE i = 0 -> t.lo % 256
      [] i = 1 -> (t.lo \div 256) % 256
      [] i = 2 -> (t.lo \div 65536) % 256
      [] i = 3 -> t.hi % 256
      [] i = 4 -> (t.hi \div 256) % 256
      [] i = 5 -> (t.hi \div 65536) % 256

\* Number((timestamp >> (40 - 8 i)) & 0xFFn), i = 0..5
MsByte(t, i) ==
    CASE i = 0 -> (t.hi \div 65536) % 256
      [] i = 1 -> (t.hi \div 256) % 256
      [] i = 2 -> t.hi % 256
      [] i = 3 -> (t.lo \div 65536) % 256
      [] i = 4 -> (t.lo \div 256) % 256
      [] i = 5 -> t.lo % 256

\* (BigInt(buffer[0]) << 40n) | ... | BigInt(buffer[5])
BytesToMs(b) ==
    Ms(b[1] * 65536 + b[2] * 256 + b[3], b[4] * 65536 + b[5] * 256 + b[6])

(***************************************************************************)
(* Text.  A string is a sequence of one-character strings, a Buffer a      *)
(* sequence of bytes.                                                      *)
(***************************************************************************)
Base64Alphabet ==
    << "A", "B", "C", "D", "E", "F", "G", "H", "I", "J", "K", "L", "M",
       "N", "O", "P", "Q", "R", "S", "T", "U", "V", "W", "X", "Y", "Z",
       "a", "b", "c", "d", "e", "f", "g", "h", "i", "j", "k", "l", "m",
       "n", "o", "p", "q", "r", "s", "t", "u", "v", "w", "x", "y", "z",
       "0", "1", "2", "3", "4", "5", "6", "7", "8", "9", "+", "/" >>

HexDigits ==
    << "0", "1", "2", "3", "4", "5", "6", "7",
       "8", "9", "a", "b", "c", "d", "e", "f" >>

B64Char(v) == Base64Alphabet[v + 1]

B64Value(c) == CHOOSE v \in 0..63 : Base64Alphabet[v + 1] = c

Range(s) == {s[i] : i \in 1..Len(s)}

\* [A-Za-z0-9_-]
UrlChars == (Range(Base64Alphabet) \ {"+", "/"}) \cup {"-", "_"}

\* str.replace(/<from>/g, to) for a one-character pattern
ReplaceAll(s, from, to) ==
    [i \in 1..Len(s) |-> IF s[i] = from THEN to ELSE s[i]]

\* str.replace(/=/g, "")
RemovePadding(s) == SelectSeq(s, LAMBDA c : c # "=")

\* str.replace(/=+$/, "")
RECURSIVE StripTrailingPadding(_)
StripTrailingPadding(s) ==
    IF Len(s) > 0 /\ s[Len(s)] = "="
    THEN StripTrailingPadding(SubSeq(s, 1, Len(s) - 1))
    ELSE s

\* "=".repeat(n)
Repeat(c, n) == [i \in 1..n |-> c]

\* buffer.toString("base64") / btoa(bin): RFC 4648 section 4, padded
RECURSIVE ToBase64(_)
ToBase64(b) ==
    IF Len(b) = 0 THEN << >>
    ELSE IF Len(b) = 1 THEN
        << B64Char(b[1] \div 4), B64Char((b[1] % 4) * 16), "=", "=" >>
    ELSE IF Len(b) = 2 THEN
        << B64Char(b[1] \div 4),
           B64Char((b[1] % 4) * 16 + (b[2] \div 16)),
           B64Char((b[2] % 16) * 4), "=" >>
    ELSE
        << B64Char(b[1] \div 4),
           B64Char((b[1] % 4) * 16 + (b[2] \div 16)),
           B64Char((b[2] % 16) * 4 + (b[3] \div 64)),
           B64Char(b[3] % 64) >>
        \o ToBase64(SubSeq(b, 4, Len(b)))

\* The characters of s before its first "="
RECURSIVE BeforePadding(_)
BeforePadding(s) ==
    IF Len(s) = 0 \/ s[1] = "=" THEN << >>
    ELSE << s[1] >> \o BeforePadding(Tail(s))

\* Bytes of a run of base64 characters: 4 characters give 3 bytes, a rest
\* of 3 gives 2 bytes, of 2 gives 1 byte, and a rest of 1 gives none (its 6
\* bits do not fill a byte); the bits left over are dropped.
RECURSIVE SextetsToBytes(_)
SextetsToBytes(s) ==
    IF Len(s) < 2 THEN << >>
    ELSE LET v1 == B64Value(s[1])
             v2 == B64Value(s[2])
             first == v1 * 4 + (v2 \div 16)
         IN IF Len(s) = 2 THEN << first >>
            ELSE LET v3 == B64Value(s[3])
                     second == (v2 % 16) * 16 + (v3 \div 4)
                 IN IF Len(s) = 3 THEN << first, second >>
                    ELSE << first, second, (v3 % 4) * 64 + B64Value(s[4]) >>
                         \o SextetsToBytes(SubSeq(s, 5, Len(s)))

\* Buffer.from(base64, "base64") on standard-alphabet text with "=" padding:
\* decoding stops at the first "=" and never throws
FromBase64(s) == SextetsToBytes(BeforePadding(s))

\* buffer.toString("hex")
RECURSIVE ToHex(_)
ToHex(b) ==
    IF Len(b) = 0 THEN << >>
    ELSE << HexDigits[(b[1] \div 16) + 1], HexDigits[(b[1] % 16) + 1] >>
         \o ToHex(Tail(b))

(***************************************************************************)
(* Outcomes of a call: a returned value or a thrown Error.                 *)
(***************************************************************************)
Return(v) == [ok |-> TRUE, value |-> v, error |-> ""]

Throw(message) == [ok |-> FALSE, value |-> << >>, error |-> message]

(***************************************************************************)
(* PAX-Timestamp48/src/base64url.js                                        *)
(***************************************************************************)
\* encodeBase64URL without the substitution of "+" and "/"
EncodeBase64URLStandardAlphabet(buffer) ==
    IF Len(buffer) = 0 THEN << >> ELSE RemovePadding(ToBase64(buffer))

encodeBase64URL(buffer) ==
    IF Len(buffer) = 0 THEN << >>
    ELSE RemovePadding(
             ReplaceAll(ReplaceAll(ToBase64(buffer), "+", "-"), "/", "_"))

decodeBase64URL(str) ==
    IF Len(str) = 0 THEN Return(<< >>)
    ELSE IF ~(Range(str) \subseteq UrlChars)
    THEN Throw("Invalid Base64URL string: contains invalid characters")
    ELSE LET padded == str \o Repeat("=", (4 - (Len(str) % 4)) % 4)
             base64 == ReplaceAll(ReplaceAll(padded, "-", "+"), "_", "/")
         IN Return(FromBase64(base64))

isValidBase64URL(str) ==
    IF Len(str) = 0 THEN TRUE
    ELSE IF ~(Range(str) \subseteq UrlChars) THEN FALSE
    ELSE IF "=" \in Range(str) THEN FALSE
    ELSE decodeBase64URL(str).ok

isValidTimestampBase64URL(str) ==
    IF ~isValidBase64URL(str) \/ Len(str) # 8 THEN FALSE
    ELSE LET decoded == decodeBase64URL(str)
         IN decoded.ok /\ Len(decoded.value) = 6

TimestampToBase64URLAnyLength(timestampBuffer) ==
    Return(encodeBase64URL(timestampBuffer))

timestampToBase64URL(timestampBuffer) ==
    IF Len(timestampBuffer) # 6
    THEN Throw("Expected 6-byte timestamp buffer")
    ELSE LET encoded == encodeBase64URL(timestampBuffer)
         IN IF Len(encoded) # 8
            THEN Throw("Expected 8-character Base64URL output")
            ELSE Return(encoded)

base64URLToTimestamp(base64url) ==
    IF ~isValidTimestampBase64URL(base64url)
    THEN Throw("Invalid timestamp Base64URL: must be 8 characters encoding 6 bytes")
    ELSE decodeBase64URL(base64url)

(***************************************************************************)
(* PAX-Timestamp48/src/timestamp.js: class UUID48Timestamp.  A method that *)
(* assigns fields of this yields the new field values with its outcome;    *)
(* waiting is TRUE when control is in _waitForNextMillisecond.             *)
(***************************************************************************)
Effect(last, counter, waiting, out) ==
    [lastSystemTime |-> last, subMillisecondCounter |-> counter,
     waiting |-> waiting, out |-> out]

\* The fields generate() writes, as a pair
Pair(last, counter) ==
    [lastSystemTime |-> last, subMillisecondCounter |-> counter]

\* What is recorded of a generate() call a caller makes on an instance:
\* found is the pair the call found, left the pair the last successful
\* call before it left (<< >> when there was none), reads the number of
\* entries of generate() so far, each of which reads the clock once, and
\* run the number of calls in a row, this one included, that read the same
\* clock value, counted from a call that found lastSystemTime below it;
\* ahead says that the call found lastSystemTime above the clock value the
\* call before it had read last; same is the number of successful calls in
\* a row, up to the last one that returned, that returned one timestamp.
NoEntry ==
    [found |-> Pair(Ms(0, 0), 0), left |-> << >>, reads |-> 0, run |-> 0,
     ahead |-> FALSE, same |-> 0]

\* _timestampToBuffer without its range check
TimestampToBufferUnchecked(timestamp) ==
    Return([i \in 1..6 |-> MsByte(timestamp, i - 1)])

_timestampToBuffer(timestamp) ==
    IF MsLess(maxValue, timestamp)
    THEN Throw("exceeds 48-bit limit")
    ELSE Return([i \in 1..6 |-> MsByte(timestamp, i - 1)])

\* _handleSameMillisecond with > in place of >= in its overflow test
HandleSameMillisecondLateOverflow(now) ==
    LET counter == subMillisecondCounter + 1
    IN IF counter > maxSubMs
       THEN IF waitStrategy = "wait"
            THEN Effect(lastSystemTime, counter, TRUE, Throw(""))
            ELSE Effect(MsInc(now), 0, FALSE, _timestampToBuffer(MsInc(now)))
       ELSE Effect(lastSystemTime, counter, FALSE, _timestampToBuffer(now))

\* _handleSameMillisecond without this.subMillisecondCounter++
HandleSameMillisecondUncounted(now) ==
    Effect(lastSystemTime, subMillisecondCounter, FALSE,
           _timestampToBuffer(now))

\* _handleSameMillisecond without this.subMillisecondCounter = 0n in its
\* overflow branch
HandleSameMillisecondUnreset(now) ==
    LET counter == subMillisecondCounter + 1
    IN IF counter >= maxSubMs
       THEN IF waitStrategy = "wait"
            THEN Effect(lastSystemTime, counter, TRUE, Throw(""))
            ELSE Effect(MsInc(now), counter, FALSE,
                        _timestampToBuffer(MsInc(now)))
       ELSE Effect(lastSystemTime, counter, FALSE, _timestampToBuffer(now))

_handleSameMillisecond(now) ==
    LET counter == subMillisecondCounter + 1
    IN IF counter >= maxSubMs
       THEN IF waitStrategy = "wait"
            THEN Effect(lastSystemTime, counter, TRUE, Throw(""))
            ELSE LET incrementedTime == MsInc(now)
                 IN Effect(incrementedTime, 0, FALSE,
                           _timestampToBuffer(incrementedTime))
       ELSE Effect(lastSystemTime, counter, FALSE, _timestampToBuffer(now))

\* _handleNewMillisecond without this.subMillisecondCounter = 0n
HandleNewMillisecondCounting(now) ==
    Effect(now, subMillisecondCounter, FALSE, _timestampToBuffer(now))

\* _handleNewMillisecond without this.lastSystemTime = systemTime
HandleNewMillisecondUnrecorded(now) ==
    Effect(lastSystemTime, 0, FALSE, _timestampToBuffer(now))

\* _handleNewMillisecond emitting the lastSystemTime it found
HandleNewMillisecondStale(now) ==
    Effect(now, 0, FALSE, _timestampToBuffer(lastSystemTime))

_handleNewMillisecond(now) ==
    Effect(now, 0, FALSE, _timestampToBuffer(now))

\* _handleClockBackward following the clock down
HandleClockBackwardFollowing(now) ==
    Effect(now, 0, FALSE, _timestampToBuffer(now))

\* _handleClockBackward without this.subMillisecondCounter = 0n
HandleClockBackwardCounting(now) ==
    Effect(MsInc(lastSystemTime), subMillisecondCounter, FALSE,
           _timestampToBuffer(MsInc(lastSystemTime)))

\* _handleClockBackward holding lastSystemTime where it is
HandleClockBackwardHolding(now) ==
    Effect(lastSystemTime, 0, FALSE, _timestampToBuffer(lastSystemTime))

_handleClockBackward(now) ==
    Effect(MsInc(lastSystemTime), 0, FALSE,
           _timestampToBuffer(MsInc(lastSystemTime)))

\* new UUID48Timestamp(options): options is a record of the properties the
\* caller set; options.maxSubMs || 4096 and options.waitStrategy ||
\* "increment" take the default for a missing property and for 0 and "".
UUID48TimestampConstructor(options) ==
    LET maxSubMsField ==
            IF "maxSubMs" \in DOMAIN options /\ options.maxSubMs # 0
            THEN options.maxSubMs ELSE 4096
        waitStrategyField ==
            IF "waitStrategy" \in DOMAIN options /\ options.waitStrategy # ""
            THEN options.waitStrategy ELSE "increment"
    IN IF maxSubMsField <= 0 \/ maxSubMsField > 65536
       THEN Throw("maxSubMs must be between 1 and 65536")
       ELSE IF waitStrategyField \notin {"increment", "wait"}
       THEN Throw("waitStrategy must be \"increment\" or \"wait\"")
       ELSE Return([lastSystemTime |-> Ms(0, 0),
                    subMillisecondCounter |-> 0,
                    maxSubMs |-> maxSubMsField,
                    waitStrategy |-> waitStrategyField])

\* generate() taking a reading below lastSystemTime for the same millisecond
GenerateWithoutBackward(now) ==
    IF MsLess(lastSystemTime, now) THEN _handleNewMillisecond(now)
    ELSE _handleSameMillisecond(now)

\* UUID48Timestamp.generate() with Date.now() = now
generate(now) ==
    IF now = lastSystemTime THEN _handleSameMillisecond(now)
    ELSE IF MsLess(lastSystemTime, now) THEN _handleNewMillisecond(now)
    ELSE _handleClockBackward(now)

validateBuffer(buffer) ==
    IF Len(buffer) # 6 THEN FALSE
    ELSE MsLeq(BytesToMs(buffer), maxValue)

bufferToTimestamp(buffer) ==
    IF ~validateBuffer(buffer)
    THEN Throw("Invalid timestamp buffer: must be 6 bytes")
    ELSE Return(BytesToMs(buffer))

(***************************************************************************)
(* PAX-Timestamp48/src/index.js                                            *)
(***************************************************************************)
Formats == {"base64url", "hex", "buffer"}

\* Format tokens a caller passes: the supported ones and an unknown one
FormatTokens == Formats \cup {"binary"}

\* formatOutput returning the buffer for a token it does not know
FormatOutputDefaultBuffer(buffer, fmt) ==
    CASE fmt = "hex" -> Return(ToHex(buffer))
      [] fmt = "base64url" -> timestampToBase64URL(buffer)
      [] OTHER -> Return(buffer)

formatOutput(buffer, fmt) ==
    CASE fmt = "buffer" -> Return(buffer)
      [] fmt = "hex" -> Return(ToHex(buffer))
      [] fmt = "base64url" -> timestampToBase64URL(buffer)
      [] OTHER -> Throw("Unsupported format")

\* Values a caller passes where a timestamp is expected, by their JavaScript
\* type; data holds the characters of a string and the bytes of a Buffer.
Str(s) == [type |-> "string", data |-> s]

Buf(b) == [type |-> "buffer", data |-> b]

Null == [type |-> "null", data |-> << >>]

Undefined == [type |-> "undefined", data |-> << >>]

Num == [type |-> "number", data |-> << >>]

\* [0-9a-fA-F]
UpperHexDigits == << "A", "B", "C", "D", "E", "F" >>

HexChars == Range(HexDigits) \cup Range(UpperHexDigits)

HexValue(c) ==
    IF c \in Range(HexDigits)
    THEN (CHOOSE i \in 1..16 : HexDigits[i] = c) - 1
    ELSE (CHOOSE i \in 1..6 : UpperHexDigits[i] = c) + 9

\* Buffer.from(s, "hex") reading the low nibble of a pair first
RECURSIVE FromHexLowNibbleFirst(_)
FromHexLowNibbleFirst(s) ==
    IF Len(s) < 2 \/ s[1] \notin HexChars \/ s[2] \notin HexChars THEN << >>
    ELSE << HexValue(s[2]) * 16 + HexValue(s[1]) >>
         \o FromHexLowNibbleFirst(SubSeq(s, 3, Len(s)))

\* Buffer.from(s, "hex"): one byte per pair of hex digits, ending at the
\* first pair that is not two hex digits
RECURSIVE FromHex(_)
FromHex(s) ==
    IF Len(s) < 2 \/ s[1] \notin HexChars \/ s[2] \notin HexChars THEN << >>
    ELSE << HexValue(s[1]) * 16 + HexValue(s[2]) >>
         \o FromHex(SubSeq(s, 3, Len(s)))

\* /^[0-9a-fA-F]{12}$/ without the {12}
MatchesHexAnyLength(s) == Len(s) > 0 /\ Range(s) \subseteq HexChars

\* /^[0-9a-f]{12}$/.test(s)
MatchesHexLower12(s) == Len(s) = 12 /\ Range(s) \subseteq Range(HexDigits)

\* /^[0-9a-fA-F]{12}$/.test(s)
MatchesHex12(s) == Len(s) = 12 /\ Range(s) \subseteq HexChars

\* The switch of validate(timestamp, format); the type tests are those of
\* isValidBase64URL (typeof str !== "string"), of the hex case and of
\* validateBuffer (Buffer.isBuffer).
ValidateSwitch(timestamp, fmt) ==
    CASE fmt = "base64url" ->
            Return(timestamp.type = "string"
                   /\ isValidTimestampBase64URL(timestamp.data))
      [] fmt = "hex" ->
            Return(timestamp.type = "string" /\ MatchesHex12(timestamp.data))
      [] fmt = "buffer" ->
            Return(timestamp.type = "buffer" /\ validateBuffer(timestamp.data))
      [] OTHER -> Throw("Invalid format")

\* validate without its try/catch
ValidateUncaught(timestamp, fmt) ==
    IF timestamp.type \in {"null", "undefined"} THEN Return(FALSE)
    ELSE ValidateSwitch(timestamp, fmt)

validate(timestamp, fmt) ==
    IF timestamp.type \in {"null", "undefined"} THEN Return(FALSE)
    ELSE LET checked == ValidateSwitch(timestamp, fmt)
         IN IF checked.ok THEN checked ELSE Return(FALSE)

convert(timestamp, fromFormat, toFormat) ==
    IF ~validate(timestamp, fromFormat).value
    THEN Throw("Invalid timestamp for format")
    ELSE LET buffer ==
                 CASE fromFormat = "buffer" -> Return(timestamp.data)
                   [] fromFormat = "hex" -> Return(FromHex(timestamp.data))
                   [] fromFormat = "base64url" ->
                          base64URLToTimestamp(timestamp.data)
                   [] OTHER -> Throw("Unsupported source format")
             formatted == formatOutput(buffer.value, toFormat)
         IN IF ~buffer.ok THEN buffer
            ELSE IF ~formatted.ok THEN formatted
            ELSE Return(IF toFormat = "buffer" THEN Buf(formatted.value)
                        ELSE Str(formatted.value))

\* The try/catch of TimestampGenerator.generate(format) and of the module's
\* generate(format) around algorithm.generate() and formatOutput: out is
\* what algorithm.generate() did.
GenerateOutcome(out, fmt) ==
    IF ~out.ok
    THEN [ok |-> FALSE, value |-> << >>, buffer |-> << >>,
          error |-> "Timestamp exceeds 48-bit limit"]
    ELSE LET formatted == formatOutput(out.value, fmt)
         IN IF formatted.ok
            THEN [ok |-> TRUE, value |-> formatted.value,
                  buffer |-> out.value, error |-> ""]
            ELSE [ok |-> FALSE, value |-> << >>, buffer |-> out.value,
                  error |-> "Failed to generate timestamp"]

NoCall == [ok |-> FALSE, value |-> << >>, buffer |-> << >>, error |-> ""]

\* new TimestampGenerator(options): the algorithm is constructed first,
\* then options.defaultFormat || "base64url" is tested.
TimestampGeneratorConstructor(options) ==
    LET algorithm ==
            UUID48TimestampConstructor(
                [maxSubMs |->
                     IF "maxSubMs" \in DOMAIN options /\ options.maxSubMs # 0
                     THEN options.maxSubMs ELSE 4096,
                 waitStrategy |->
                     IF "waitStrategy" \in DOMAIN options
                        /\ options.waitStrategy # ""
                     THEN options.waitStrategy ELSE "increment"])
        defaultFormatField ==
            IF "defaultFormat" \in DOMAIN options /\ options.defaultFormat # ""
            THEN options.defaultFormat ELSE "base64url"
    IN IF ~algorithm.ok THEN algorithm
       ELSE IF defaultFormatField \notin Formats
       THEN Throw("Invalid defaultFormat")
       ELSE Return([algorithm |-> algorithm.value,
                    defaultFormat |-> defaultFormatField])

\* A format argument left out, for which the default format stands in
Omitted == "undefined"

FormatArgument(given) == IF given = Omitted THEN defaultFormat ELSE given

\* Values a caller passes as the count of generateBatch, by their type
Count(n) == [type |-> "integer", n |-> n]

\* 1.5
FractionalCount == [type |-> "fraction", n |-> 1]

\* "10"
StringCount == [type |-> "string", n |-> 10]

\* count >= 0 in place of the test of generateBatch
IsNonNegativeInteger(count) == count.type = "integer" /\ count.n >= 0

\* Number.isInteger(count) && count > 0
IsPositiveInteger(count) == count.type = "integer" /\ count.n > 0

\* No generateBatch call has been made
NoBatch ==
    [count |-> Count(0), format |-> "", results |-> << >>, status |-> "none",
     error |-> "", entered |-> 0]

\* The loop of generateBatch going one iteration too far
BatchLoopInclusive(results, count) == Len(results) <= count.n

\* The test i < count of the loop of generateBatch, i being results.length
BatchLoop(results, count) == Len(results) < count.n

\* results.push(this.generate(format)) with the outcome of that generate:
\* an Error leaves generateBatch, and the array with it is lost to the
\* caller (status "thrown"); after the last push the array is returned.
BatchPush(outcome) ==
    IF batch.status # "running" THEN batch
    ELSE IF ~outcome.ok
    THEN [batch EXCEPT !.status = "thrown", !.error = outcome.error]
    ELSE LET results == Append(batch.results, outcome.value)
         IN [batch EXCEPT !.results = results,
                          !.status = IF BatchLoop(results, batch.count)
                                     THEN "running" ELSE "returned"]

\* No getTimestampAge or isTimestampFresh call since the last generate
NoAnswer == [op |-> "none"]

\* One entry of UUID48Timestamp.generate() inside generate(fmt), reading
\* the clock once; inside generateBatch the value returned is pushed.
Enter(now, fmt) ==
    LET g == generate(now)
    IN /\ systemTime' = now
       /\ lastSystemTime' = g.lastSystemTime
       /\ subMillisecondCounter' = g.subMillisecondCounter
       /\ format' = fmt
       /\ calls' = calls + 1
       /\ answer' = NoAnswer
       /\ IF g.waiting
          THEN pc' = "polling" /\ UNCHANGED <<ret, prev, batch>>
          ELSE /\ ret' = GenerateOutcome(g.out, fmt)
               /\ prev' = IF ret.buffer # << >> THEN ret.buffer ELSE prev
               /\ batch' = BatchPush(GenerateOutcome(g.out, fmt))
               /\ pc' = IF batch'.status = "running" THEN "batch" ELSE "idle"
       /\ UNCHANGED <<program, maxSubMs, waitStrategy, state, arg,
                      defaultFormat, threads, call, generators>>

\* TimestampGenerator.generate(format)
Generate ==
    /\ program = "uuid48"
    /\ pc = "idle"
    /\ calls < MaxCalls
    /\ \E given \in FormatTokens \cup {Omitted}, now \in ClockValues :
           Enter(now, FormatArgument(given))

\* _waitForNextMillisecond: one test of the busy-wait loop
Poll ==
    /\ program \in {"uuid48", "batch"}
    /\ pc = "polling"
    /\ \E now \in ClockValues :
           pc' = IF now = lastSystemTime THEN "polling" ELSE "regenerate"
    /\ UNCHANGED <<program, lastSystemTime, subMillisecondCounter, maxSubMs,
                   waitStrategy, state, format, calls, systemTime, arg, ret,
                   prev>>
    /\ UNCHANGED <<defaultFormat, batch, answer, threads, call, generators>>

\* _waitForNextMillisecond: return this.generate()
Regenerate ==
    /\ program \in {"uuid48", "batch"}
    /\ pc = "regenerate"
    /\ calls < MaxCalls
    /\ \E now \in ClockValues : Enter(now, format)

\* Counts handed to generateBatch: integers from -1 up, 1.5 and "10"
BatchCounts ==
    {Count(n) : n \in (0 - 1)..MaxBatch} \cup {FractionalCount, StringCount}

\* Format arguments handed to generateBatch
BatchFormats == {Omitted, "binary"}

\* TimestampGenerator.generateBatch(count, format) up to its first
\* this.generate(format), or to its throw; ret and prev follow the calls of
\* the batch that begins.
GenerateBatch ==
    /\ program = "batch"
    /\ pc = "idle"
    /\ calls < MaxCalls
    /\ \E count \in BatchCounts, given \in BatchFormats :
        IF ~IsPositiveInteger(count)
        THEN /\ batch' = [NoBatch EXCEPT
                              !.count = count,
                              !.status = "thrown",
                              !.error = "Count must be a positive integer",
                              !.entered = calls]
             /\ UNCHANGED <<pc, ret, prev>>
        ELSE /\ calls + count.n <= MaxCalls
             /\ batch' = [NoBatch EXCEPT
                              !.count = count,
                              !.format = FormatArgument(given),
                              !.status = IF BatchLoop(<< >>, count)
                                         THEN "running" ELSE "returned",
                              !.entered = calls]
             /\ pc' = IF BatchLoop(<< >>, count) THEN "batch" ELSE "idle"
             /\ ret' = NoCall
             /\ prev' = << >>
    /\ UNCHANGED <<program, lastSystemTime, subMillisecondCounter, maxSubMs,
                   waitStrategy, state, format, calls, systemTime, arg,
                   defaultFormat, answer, threads, call, generators>>

\* One iteration of the loop of generateBatch: this.generate(format)
BatchGenerate ==
    /\ program = "batch"
    /\ pc = "batch"
    /\ calls < MaxCalls
    /\ \E now \in ClockValues : Enter(now, batch.format)

\* generate(format) of the module, on its defaultGenerator
GenerateDefault ==
    /\ program = "module"
    /\ pc = "idle"
    /\ calls < MaxCalls
    /\ \E given \in FormatTokens \cup {Omitted}, now \in ClockValues :
           Enter(now, FormatArgument(given))

\* a - b for a >= b
MsSub(a, b) ==
    IF a.lo >= b.lo THEN Ms(a.hi - b.hi, a.lo - b.lo)
    ELSE Ms(a.hi - b.hi - 1, (a.lo + Limb) - b.lo)

\* timestampToDate(timestamp, format).getTime()
timestampToDate(timestamp, fmt) ==
    IF ~validate(timestamp, fmt).value
    THEN Throw("Invalid timestamp for format")
    ELSE LET buffer ==
                 CASE fmt = "buffer" -> Return(timestamp.data)
                   [] fmt = "hex" -> Return(FromHex(timestamp.data))
                   [] fmt = "base64url" -> base64URLToTimestamp(timestamp.data)
                   [] OTHER -> Throw("Unsupported format")
         IN IF ~buffer.ok THEN buffer ELSE bufferToTimestamp(buffer.value)

\* getTimestampAge(timestamp, format) with Date.now() = now: the age is a
\* sign and a magnitude
getTimestampAge(timestamp, fmt, now) ==
    LET date == timestampToDate(timestamp, fmt)
    IN IF ~date.ok THEN date
       ELSE IF MsLess(now, date.value)
       THEN Return([negative |-> TRUE, ms |-> MsSub(date.value, now)])
       ELSE Return([negative |-> FALSE, ms |-> MsSub(now, date.value)])

\* isTimestampFresh without the test age >= 0
IsTimestampFreshUnsigned(timestamp, maxAgeMs, fmt, now) ==
    LET age == getTimestampAge(timestamp, fmt, now)
    IN IF ~age.ok THEN FALSE
       ELSE age.value.negative \/ MsLeq(age.value.ms, Ms(0, maxAgeMs))

\* isTimestampFresh(timestamp, maxAgeMs, format) with Date.now() = now
isTimestampFresh(timestamp, maxAgeMs, fmt, now) ==
    LET age == getTimestampAge(timestamp, fmt, now)
    IN IF ~age.ok THEN FALSE
       ELSE ~age.value.negative /\ MsLeq(age.value.ms, Ms(0, maxAgeMs))

\* maxAgeMs arguments of isTimestampFresh
MaxAges == {0, 1}

\* getTimestampAge(id) of the identifier generateId() just returned, asked
\* once per identifier
GetTimestampAge ==
    /\ program = "module"
    /\ pc = "idle"
    /\ ret.ok
    /\ format = "base64url"
    /\ answer = NoAnswer
    /\ \E now \in ClockValues :
           answer' = [op |-> "getTimestampAge", now |-> now, maxAgeMs |-> 0,
                      outcome |->
                          getTimestampAge(Str(ret.value), "base64url", now)]
    /\ UNCHANGED <<program, lastSystemTime, subMillisecondCounter, maxSubMs,
                   waitStrategy, state, pc, format, calls, systemTime, arg,
                   ret, prev, defaultFormat, batch, threads, call, generators>>

\* isTimestampFresh(id, maxAgeMs) of the identifier generateId() just
\* returned, asked once per identifier
IsTimestampFresh ==
    /\ program = "module"
    /\ pc = "idle"
    /\ ret.ok
    /\ format = "base64url"
    /\ answer = NoAnswer
    /\ \E now \in ClockValues, maxAgeMs \in MaxAges :
           answer' = [op |-> "isTimestampFresh", now |-> now,
                      maxAgeMs |-> maxAgeMs,
                      outcome |->
                          Return(isTimestampFresh(Str(ret.value), maxAgeMs,
                                                  "base64url", now))]
    /\ UNCHANGED <<program, lastSystemTime, subMillisecondCounter, maxSubMs,
                   waitStrategy, state, pc, format, calls, systemTime, arg,
                   ret, prev, defaultFormat, batch, threads, call, generators>>

(***************************************************************************)
(* Timestamp48/gpt-5.js: the 128-bit generators.                           *)
(***************************************************************************)
\* crypto.randomInt(0, 0x1000) / _random12(): draws of the 12-bit sequence
Seq12Draws == {0, 255, 4095}

\* crypto.randomBytes(8) / _randomTail8(): draws of the random tail
TailDraws ==
    { << 0, 0, 0, 0, 0, 0, 0, 0 >>,
      << 255, 255, 255, 255, 255, 255, 255, 255 >> }

\* Both copies of _packUuidV7 (lines 17-39 and 93-116) fill the same bytes.
_packUuidV7(ts48, seq12, randTail8) ==
    [i \in 1..16 |->
        CASE i <= 6 -> MsByte(ts48, i - 1)
          [] i = 7 -> 112 + ((seq12 \div 256) % 16)
          [] i = 8 -> seq12 % 256
          [] i = 9 -> (randTail8[1] % 64) + 128
          [] OTHER -> randTail8[i - 8]]

\* _toBase64Url keeping the padding
ToBase64UrlPadded(buf) ==
    ReplaceAll(ReplaceAll(ToBase64(buf), "+", "-"), "/", "_")

\* Both copies of _toBase64Url (lines 41-46 and 118-124)
_toBase64Url(buf) ==
    StripTrailingPadding(
        ReplaceAll(ReplaceAll(ToBase64(buf), "+", "-"), "/", "_"))

\* The tail of generateV7Base64Url: _state.lastMs = ts, pack and encode.
Emit(ts, seq12, tail) ==
    /\ state' = [lastMs |-> ts, seq12 |-> seq12]
    /\ arg' = [ts48 |-> ts, seq12 |-> seq12, randTail8 |-> tail]
    /\ ret' = [ok |-> TRUE, error |-> "",
               buffer |-> _packUuidV7(ts, seq12, tail),
               value |-> _toBase64Url(_packUuidV7(ts, seq12, tail))]
    /\ prev' = IF arg = << >> THEN << >>
               ELSE [ts48 |-> arg.ts48, seq12 |-> arg.seq12]
    /\ pc' = "idle"

\* generateV7Base64Url (Node variant) up to its return or its entry into
\* _waitNextMs
GenerateV7Node ==
    /\ program = "node"
    /\ pc = "idle"
    /\ calls < MaxCalls
    /\ calls' = calls + 1
    /\ \E now \in ClockValues, random \in Seq12Draws, tail \in TailDraws :
        /\ systemTime' = now
        /\ IF now = state.lastMs
           THEN LET seq12 == (state.seq12 + 1) % 4096
                IN IF seq12 = 0
                   THEN /\ state' = [state EXCEPT !.seq12 = 0]
                        /\ pc' = "waitNextMs"
                        /\ UNCHANGED <<arg, ret, prev>>
                   ELSE Emit(now, seq12, tail)
           ELSE Emit(now, random, tail)
    /\ UNCHANGED <<program, lastSystemTime, subMillisecondCounter, maxSubMs,
                   waitStrategy, format>>
    /\ UNCHANGED <<defaultFormat, batch, answer, threads, call, generators>>

\* _waitNextMs(currentMs) with currentMs = _state.lastMs: one test of its
\* loop, and the rest of generateV7Base64Url once the loop ends
WaitNextMs ==
    /\ program = "node"
    /\ pc = "waitNextMs"
    /\ \E t \in ClockValues, tail \in TailDraws :
        /\ systemTime' = t
        /\ IF MsLeq(t, state.lastMs)
           THEN UNCHANGED <<state, arg, ret, prev, pc>>
           ELSE Emit(t, state.seq12, tail)
    /\ UNCHANGED <<program, lastSystemTime, subMillisecondCounter, maxSubMs,
                   waitStrategy, format, calls>>
    /\ UNCHANGED <<defaultFormat, batch, answer, threads, call, generators>>

\* let ts taking the clock reading as it is
WebTimestampUnclamped(now) == now

\* The web timestamp moving past lastMs when the clock does not
WebTimestampBumped(now) ==
    IF MsLess(state.lastMs, now) THEN now ELSE MsInc(state.lastMs)

\* let ts = now > _state.lastMs ? now : _state.lastMs
WebTimestamp(now) == IF MsLess(state.lastMs, now) THEN now ELSE state.lastMs

\* generateV7Base64Url (web variant)
GenerateV7Web ==
    /\ program = "web"
    /\ pc = "idle"
    /\ calls < MaxCalls
    /\ calls' = calls + 1
    /\ \E now \in ClockValues, random \in Seq12Draws, tail \in TailDraws :
        /\ systemTime' = now
        /\ LET ts == WebTimestamp(now)
           IN IF ts = state.lastMs
              THEN LET seq12 == (state.seq12 + 1) % 4096
                   IN Emit(IF seq12 = 0 THEN MsInc(state.lastMs) ELSE ts,
                           seq12, tail)
              ELSE Emit(ts, random, tail)
    /\ UNCHANGED <<program, lastSystemTime, subMillisecondCounter, maxSubMs,
                   waitStrategy, format>>
    /\ UNCHANGED <<defaultFormat, batch, answer, threads, call, generators>>

(***************************************************************************)
(* Drivers of the pure functions: arg holds the input drawn in Init.       *)
(***************************************************************************)
ByteValues == {0, 1, 128, 251, 255}

\* Buffers of the two identifier lengths, 6 and 16 bytes
FixedBuffers ==
    { << 0, 0, 0, 0, 0, 0 >>,
      << 255, 255, 255, 255, 255, 255 >>,
      << 1, 2, 3, 4, 5, 6 >>,
      << 255, 128, 64, 32, 16, 8 >>,
      << 42, 42, 42, 42, 42, 42 >>,
      << 1, 152, 204, 182, 110, 78, 112, 0, 128, 1, 2, 3, 4, 5, 6, 7 >>,
      << 255, 255, 255, 255, 255, 255, 127, 255, 191, 255, 255, 255, 255,
         255, 255, 251 >> }

TextChars == {"A", "B", "-", "_", "+", "/", "=", " "}

RECURSIVE SeqsUpTo(_, _)
SeqsUpTo(S, n) ==
    IF n = 0 THEN {<< >>}
    ELSE LET shorter == SeqsUpTo(S, n - 1)
         IN shorter \cup {<< x >> \o t : x \in S, t \in {u \in shorter : Len(u) = n - 1}}

\* Inputs of _packUuidV7: sequence values around its byte and nibble
\* boundaries, tails whose first byte has each value of its top two bits
PackSeq12 == {0, 1, 255, 256, 3840, 4094, 4095}

PackTails ==
    TailDraws \cup { << 127, 1, 2, 3, 4, 5, 6, 7 >>,
                     << 128, 16, 32, 48, 64, 80, 96, 112 >> }

\* _packUuidV7(arg.ts48, arg.seq12, arg.randTail8)
PackUuidV7 ==
    /\ program = "pack"
    /\ pc = "idle"
    /\ ret' = Return(_packUuidV7(arg.ts48, arg.seq12, arg.randTail8))
    /\ pc' = "packed"
    /\ UNCHANGED <<program, lastSystemTime, subMillisecondCounter, maxSubMs,
                   waitStrategy, state, format, calls, systemTime, arg, prev>>
    /\ UNCHANGED <<defaultFormat, batch, answer, threads, call, generators>>

\* encodeBase64URL of the input buffer, or of what decodeBase64URL returned
EncodeBase64URL ==
    /\ program = "codec"
    /\ \/ /\ pc = "idle"
          /\ "buffer" \in DOMAIN arg
          /\ ret' = Return(encodeBase64URL(arg.buffer))
          /\ pc' = "encoded"
       \/ /\ pc = "decoded"
          /\ ret.ok
          /\ ret' = Return(encodeBase64URL(ret.value))
          /\ pc' = "decoded-encoded"
    /\ UNCHANGED <<program, lastSystemTime, subMillisecondCounter, maxSubMs,
                   waitStrategy, state, format, calls, systemTime, arg, prev>>
    /\ UNCHANGED <<defaultFormat, batch, answer, threads, call, generators>>

\* decodeBase64URL of the input string, or of what encodeBase64URL returned
DecodeBase64URL ==
    /\ program = "codec"
    /\ \/ /\ pc = "idle"
          /\ "str" \in DOMAIN arg
          /\ ret' = decodeBase64URL(arg.str)
          /\ pc' = "decoded"
       \/ /\ pc = "encoded"
          /\ ret' = decodeBase64URL(ret.value)
          /\ pc' = "encoded-decoded"
    /\ UNCHANGED <<program, lastSystemTime, subMillisecondCounter, maxSubMs,
                   waitStrategy, state, format, calls, systemTime, arg, prev>>
    /\ UNCHANGED <<defaultFormat, batch, answer, threads, call, generators>>

\* Strings handed to validate and convert: identifiers of both text
\* formats, and strings that differ from one in a character, in their case
\* or in their length
FacadeStrings ==
    { << "A", "Z", "j", "M", "t", "m", "5", "O" >>,
      << "_", "_", "_", "_", "_", "_", "_", "_" >>,
      << "A", "A", "A", "A", "A", "A", "A", "A" >>,
      << "-", "_", "-", "-", "A", "B", "C", "D" >>,
      << "d", "e", "a", "d", "b", "e", "e", "f" >>,
      << "A", "Z", "j", "M", "+", "m", "5", "O" >>,
      << "A", "Z", "j", "M", "/", "m", "5", "O" >>,
      << "A", "Z", "j", "M", "t", "m", "5", "=" >>,
      << "A", "Z", "j", "M", " ", "m", "5", "O" >>,
      << "A", "Z", "j", "M", "t", "m", "5", "O", "\n" >>,
      << "A", "Z", "j", "M", "t", "m", "5" >>,
      << "A", "Z", "j", "M", "t", "m", "5", "O", "A" >>,
      << "0", "1", "9", "8", "c", "c", "b", "6", "6", "e", "4", "e" >>,
      << "0", "1", "9", "8", "C", "C", "B", "6", "6", "E", "4", "E" >>,
      << "0", "1", "9", "8", "c", "c", "B", "6", "6", "e", "4", "E" >>,
      << "f", "f", "f", "f", "f", "f", "f", "f", "f", "f", "f", "f" >>,
      << "0", "0", "0", "0", "0", "0", "0", "0", "0", "0", "0", "0" >>,
      << "0", "1", "9", "8", "c", "c", "b", "6", "6", "e", "4" >>,
      << "0", "1", "9", "8", "c", "c", "b", "6", "6", "e", "4", "e", "0" >>,
      << "0", "1", "9", "8", "c", "c", "b", "6", "6", "e", "4", "g" >>,
      << "0", "1", "9", "8", "c", "c", "b", "6", "6", "e", "4", "e", "\n" >>,
      << "0", "1", "9", "8", " ", "c", "b", "6", "6", "e", "4", "e" >>,
      <<  >>,
      << "i", "n", "v", "a", "l", "i", "d" >> }

FacadeBuffers == FixedBuffers \cup { << >>, << 1, 2, 3, 4, 5 >> }

FacadeValues ==
    {Null, Undefined, Num} \cup {Str(t) : t \in FacadeStrings}
    \cup {Buf(b) : b \in FacadeBuffers}

\* isValidBase64URL(arg.str)
IsValidBase64URL ==
    /\ program = "codec"
    /\ pc = "idle"
    /\ "str" \in DOMAIN arg
    /\ ret' = Return(isValidBase64URL(arg.str))
    /\ pc' = "checked"
    /\ UNCHANGED <<program, lastSystemTime, subMillisecondCounter, maxSubMs,
                   waitStrategy, state, format, calls, systemTime, arg, prev>>
    /\ UNCHANGED <<defaultFormat, batch, answer, threads, call, generators>>

\* validate(arg.timestamp, arg.fromFormat)
Validate ==
    /\ program = "facade"
    /\ pc = "idle"
    /\ ret' = validate(arg.timestamp, arg.fromFormat)
    /\ pc' = "validated"
    /\ UNCHANGED <<program, lastSystemTime, subMillisecondCounter, maxSubMs,
                   waitStrategy, state, format, calls, systemTime, arg, prev>>
    /\ UNCHANGED <<defaultFormat, batch, answer, threads, call, generators>>

\* convert(arg.timestamp, arg.fromFormat, arg.toFormat)
Convert ==
    /\ program = "facade"
    /\ pc = "idle"
    /\ ret' = convert(arg.timestamp, arg.fromFormat, arg.toFormat)
    /\ pc' = "converted"
    /\ UNCHANGED <<program, lastSystemTime, subMillisecondCounter, maxSubMs,
                   waitStrategy, state, format, calls, systemTime, arg, prev>>
    /\ UNCHANGED <<defaultFormat, batch, answer, threads, call, generators>>

\* convert of what Convert returned, back into the format it came from
ConvertBack ==
    /\ program = "facade"
    /\ pc = "converted"
    /\ ret.ok
    /\ ret' = convert(ret.value, arg.toFormat, arg.fromFormat)
    /\ pc' = "converted-back"
    /\ UNCHANGED <<program, lastSystemTime, subMillisecondCounter, maxSubMs,
                   waitStrategy, state, format, calls, systemTime, arg, prev>>
    /\ UNCHANGED <<defaultFormat, batch, answer, threads, call, generators>>

(***************************************************************************)
(* Specification.                                                          *)
(***************************************************************************)
\* Option objects of the generators that are called: small moduli, so that
\* the counter overflows within MaxCalls calls, and the defaults
GeneratorOptions ==
    {[maxSubMs |-> m, waitStrategy |-> w] :
         m \in 1..MaxModulus, w \in {"increment", "wait"}}
    \cup {[defaultFormat |-> "hex"]}

BatchOptions ==
    {[maxSubMs |-> 1, waitStrategy |-> w, defaultFormat |-> "hex"] :
         w \in {"increment", "wait"}}

\* Option objects handed to the constructors: no option, supported values,
\* and values at and beyond the limits of each option
ConstructorOptions ==
    {<< >>}
    \cup {[maxSubMs |-> m] : m \in {0 - 1, 0, 1, 4096, 65536, 65537}}
    \cup {[waitStrategy |-> w] : w \in {"increment", "wait", "spin", ""}}
    \cup {[defaultFormat |-> f] : f \in FormatTokens \cup {""}}
    \cup {[maxSubMs |-> 65537, waitStrategy |-> "spin",
           defaultFormat |-> "binary"]}

ConstructorClasses == {"UUID48Timestamp", "TimestampGenerator"}

\* new UUID48Timestamp(arg.options) or new TimestampGenerator(arg.options)
Construct ==
    /\ program = "construct"
    /\ pc = "idle"
    /\ ret' = IF arg.class = "UUID48Timestamp"
              THEN UUID48TimestampConstructor(arg.options)
              ELSE TimestampGeneratorConstructor(arg.options)
    /\ pc' = "constructed"
    /\ UNCHANGED <<program, lastSystemTime, subMillisecondCounter, maxSubMs,
                   waitStrategy, state, format, calls, systemTime, arg, prev>>
    /\ UNCHANGED <<defaultFormat, batch, answer, threads, call, generators>>

\* The state after new TimestampGenerator(options): the fields of the
\* instance, or no instance (pc = "failed") when the constructor threw
Constructed(options) ==
    LET made == TimestampGeneratorConstructor(options)
    IN /\ arg = options
       /\ IF made.ok
          THEN /\ lastSystemTime = made.value.algorithm.lastSystemTime
               /\ subMillisecondCounter =
                      made.value.algorithm.subMillisecondCounter
               /\ maxSubMs = made.value.algorithm.maxSubMs
               /\ waitStrategy = made.value.algorithm.waitStrategy
               /\ defaultFormat = made.value.defaultFormat
               /\ pc = "idle"
               /\ ret = NoCall
          ELSE /\ lastSystemTime = Ms(0, 0)
               /\ subMillisecondCounter = 0
               /\ maxSubMs = 4096
               /\ waitStrategy = "increment"
               /\ defaultFormat = ""
               /\ pc = "failed"
               /\ ret = [NoCall EXCEPT !.error = made.error]
       /\ state = [lastMs |-> Ms(0, 0), seq12 |-> 0]
       /\ format = ""
       /\ calls = 0
       /\ systemTime = Ms(0, 0)
       /\ prev = << >>
       /\ batch = NoBatch
       /\ answer = NoAnswer
       /\ threads = << >>
       /\ call = NoEntry
       /\ generators = << >>

InitUuid48 ==
    /\ program = "uuid48"
    /\ \E options \in GeneratorOptions : Constructed(options)

InitBatch ==
    /\ program = "batch"
    /\ \E options \in BatchOptions : Constructed(options)

\* The module index.js once loaded: defaultGenerator = new UUID48Timestamp(),
\* and "base64url" as the default of the format parameters
InitModule ==
    LET made == UUID48TimestampConstructor(<< >>)
    IN /\ program = "module"
       /\ lastSystemTime = made.value.lastSystemTime
       /\ subMillisecondCounter = made.value.subMillisecondCounter
       /\ maxSubMs = made.value.maxSubMs
       /\ waitStrategy = made.value.waitStrategy
       /\ defaultFormat = "base64url"
       /\ state = [lastMs |-> Ms(0, 0), seq12 |-> 0]
       /\ pc = "idle"
       /\ format = ""
       /\ calls = 0
       /\ systemTime = Ms(0, 0)
       /\ arg = << >>
       /\ ret = NoCall
       /\ prev = << >>
       /\ batch = NoBatch
       /\ answer = NoAnswer
       /\ threads = << >>
       /\ call = NoEntry
       /\ generators = << >>

\* Inputs of the operations on 6-byte buffers and 8-character strings:
\* buffers and strings of those lengths, and shorter and longer
FixedLengthBuffers ==
    FixedBuffers \cup SeqsUpTo(ByteValues, 1)
    \cup { << 1, 2, 3, 4, 5 >>, << 0, 0, 0, 0, 0 >>,
           << 1, 2, 3, 4, 5, 6, 7 >>, << 0, 0, 0, 0, 0, 0, 0 >> }

FixedLengthStrings ==
    FacadeStrings
    \cup { << "s", "h", "o", "r", "t" >>,
           << "t", "o", "o", "l", "o", "n", "g", "g", "g" >>,
           << "A", "=", "=", "=", "=", "=", "=", "=" >>,
           << "A", "A", "A", "A", "A", "A" >>,
           << "A", "A", "A", "A", "A", "A", "A", "A", "A", "A" >> }

\* UUID48Timestamp.validateBuffer(arg.buffer)
ValidateBuffer ==
    /\ program = "fixed"
    /\ pc = "idle"
    /\ "buffer" \in DOMAIN arg
    /\ ret' = Return(validateBuffer(arg.buffer))
    /\ pc' = "validateBuffer"
    /\ UNCHANGED <<program, lastSystemTime, subMillisecondCounter, maxSubMs,
                   waitStrategy, state, format, calls, systemTime, arg, prev>>
    /\ UNCHANGED <<defaultFormat, batch, answer, threads, call, generators>>

\* UUID48Timestamp.bufferToTimestamp(arg.buffer), a static method
StaticBufferToTimestamp ==
    /\ program = "fixed"
    /\ pc = "idle"
    /\ "buffer" \in DOMAIN arg
    /\ ret' = bufferToTimestamp(arg.buffer)
    /\ pc' = "bufferToTimestamp"
    /\ UNCHANGED <<program, lastSystemTime, subMillisecondCounter, maxSubMs,
                   waitStrategy, state, format, calls, systemTime, arg, prev>>
    /\ UNCHANGED <<defaultFormat, batch, answer, threads, call, generators>>

\* timestampToBase64URL(arg.buffer)
TimestampToBase64URL ==
    /\ program = "fixed"
    /\ pc = "idle"
    /\ "buffer" \in DOMAIN arg
    /\ ret' = timestampToBase64URL(arg.buffer)
    /\ pc' = "timestampToBase64URL"
    /\ UNCHANGED <<program, lastSystemTime, subMillisecondCounter, maxSubMs,
                   waitStrategy, state, format, calls, systemTime, arg, prev>>
    /\ UNCHANGED <<defaultFormat, batch, answer, threads, call, generators>>

\* base64URLToTimestamp(arg.str)
Base64URLToTimestamp ==
    /\ program = "fixed"
    /\ pc = "idle"
    /\ "str" \in DOMAIN arg
    /\ ret' = base64URLToTimestamp(arg.str)
    /\ pc' = "base64URLToTimestamp"
    /\ UNCHANGED <<program, lastSystemTime, subMillisecondCounter, maxSubMs,
                   waitStrategy, state, format, calls, systemTime, arg, prev>>
    /\ UNCHANGED <<defaultFormat, batch, answer, threads, call, generators>>

\* The module state of gpt-5.js, or the input of a pure function; the
\* UUID48Timestamp fields are those of an instance nobody calls.
InitOther ==
    /\ \/ program \in {"node", "web"} /\ arg = << >>
       \/ /\ program = "pack"
          /\ arg \in [ts48 : ClockValues, seq12 : PackSeq12, randTail8 : PackTails]
       \/ /\ program = "codec"
          /\ \/ \E b \in SeqsUpTo(ByteValues, MaxLen) \cup FixedBuffers :
                    arg = [buffer |-> b]
             \/ \E t \in SeqsUpTo(TextChars, MaxLen) : arg = [str |-> t]
       \/ /\ program = "fixed"
          /\ \/ \E b \in FixedLengthBuffers : arg = [buffer |-> b]
             \/ \E t \in FixedLengthStrings : arg = [str |-> t]
       \/ /\ program = "construct"
          /\ arg \in [class : ConstructorClasses, options : ConstructorOptions]
       \/ /\ program = "facade"
          /\ arg \in [timestamp : FacadeValues, fromFormat : FormatTokens,
                      toFormat : FormatTokens]
    /\ lastSystemTime = Ms(0, 0)
    /\ subMillisecondCounter = 0
    /\ maxSubMs = 4096
    /\ waitStrategy = "increment"
    /\ state = [lastMs |-> Ms(0, 0), seq12 |-> 0]
    /\ pc = "idle"
    /\ format = ""
    /\ calls = 0
    /\ systemTime = Ms(0, 0)
    /\ ret = NoCall
    /\ prev = << >>
    /\ defaultFormat = ""
    /\ batch = NoBatch
    /\ answer = NoAnswer
    /\ threads = << >>
    /\ call = NoEntry
    /\ generators = << >>

Init == InitUuid48 \/ InitBatch \/ InitModule \/ InitOther

Next ==
    \/ Generate
    \/ Poll
    \/ Regenerate
    \/ GenerateBatch
    \/ BatchGenerate
    \/ GenerateDefault
    \/ GetTimestampAge
    \/ IsTimestampFresh
    \/ GenerateV7Node
    \/ WaitNextMs
    \/ GenerateV7Web
    \/ PackUuidV7
    \/ EncodeBase64URL
    \/ DecodeBase64URL
    \/ IsValidBase64URL
    \/ Validate
    \/ Convert
    \/ ConvertBack
    \/ ValidateBuffer
    \/ StaticBufferToTimestamp
    \/ TimestampToBase64URL
    \/ Base64URLToTimestamp
    \/ Construct

Spec == Init /\ [][Next]_vars

(***************************************************************************)
(* Invocations of UUID48Timestamp.generate() on one instance that are not  *)
(* synchronized.  JavaScript runs generate() to completion, so the calls   *)
(* of one realm are serialized; program = "interleaved" is the same code   *)
(* under a scheduler that may switch between the reading and comparing of  *)
(* the clock (timestamp.js lines 40-48) and the handler that writes        *)
(* lastSystemTime and subMillisecondCounter (lines 55-92), as a port to    *)
(* threads without a lock would run it.  program = "serialized" admits a   *)
(* new invocation only when none is in progress.                           *)
(***************************************************************************)
ThreadIds == {1, 2}

IdleThread == [pc |-> "idle", systemTime |-> Ms(0, 0), branch |-> ""]

\* Clock readings of the invocations
ThreadClock ==
    {Ms(0, t) : t \in 0..MaxTick} \cup {Ms(Limb - 1, Limb - 1), Ms(Limb, 0)}

\* The branch generate() takes for the reading now
Branch(now) ==
    IF now = lastSystemTime THEN "same"
    ELSE IF MsLess(lastSystemTime, now) THEN "new"
    ELSE "backward"

\* generate(), lines 40-48: read the clock and compare it with
\* this.lastSystemTime
ReadAndCompare(t) ==
    /\ threads[t].pc = "idle"
    /\ calls < MaxCalls
    /\ program = "serialized" => \A u \in ThreadIds : threads[u].pc = "idle"
    /\ \E now \in ThreadClock :
           threads' = [threads EXCEPT
                          ![t] = [pc |-> "handle", systemTime |-> now,
                                  branch |-> Branch(now)]]
    /\ calls' = calls + 1
    /\ UNCHANGED <<program, lastSystemTime, subMillisecondCounter, maxSubMs,
                   waitStrategy, state, pc, format, systemTime, arg, ret,
                   prev, defaultFormat, batch, answer, call, generators>>

\* The handler of the branch taken, which writes the fields and returns
Handle(t) ==
    /\ threads[t].pc = "handle"
    /\ LET now == threads[t].systemTime
           g == CASE threads[t].branch = "same" -> _handleSameMillisecond(now)
                  [] threads[t].branch = "new" -> _handleNewMillisecond(now)
                  [] OTHER -> _handleClockBackward(now)
       IN /\ lastSystemTime' = g.lastSystemTime
          /\ subMillisecondCounter' = g.subMillisecondCounter
          /\ ret' = [ok |-> g.out.ok, value |-> g.out.value,
                     buffer |-> g.out.value, error |-> g.out.error]
    /\ prev' = IF ret.buffer # << >> THEN ret.buffer ELSE prev
    /\ threads' = [threads EXCEPT ![t] = IdleThread]
    /\ UNCHANGED <<program, maxSubMs, waitStrategy, state, pc, format, calls,
                   systemTime, arg, defaultFormat, batch, answer, call,
                   generators>>

ReadClock == \E t \in ThreadIds : ReadAndCompare(t)

RunHandler == \E t \in ThreadIds : Handle(t)

\* One instance with the overflow strategy "increment", which never waits
InitThreads ==
    /\ program \in {"serialized", "interleaved"}
    /\ \E m \in 1..MaxModulus :
           LET made == UUID48TimestampConstructor(
                           [maxSubMs |-> m, waitStrategy |-> "increment"])
           IN /\ lastSystemTime = made.value.lastSystemTime
              /\ subMillisecondCounter = made.value.subMillisecondCounter
              /\ maxSubMs = made.value.maxSubMs
              /\ waitStrategy = made.value.waitStrategy
    /\ threads = [t \in ThreadIds |-> IdleThread]
    /\ state = [lastMs |-> Ms(0, 0), seq12 |-> 0]
    /\ pc = "idle"
    /\ format = ""
    /\ calls = 0
    /\ systemTime = Ms(0, 0)
    /\ arg = << >>
    /\ ret = NoCall
    /\ prev = << >>
    /\ defaultFormat = ""
    /\ batch = NoBatch
    /\ answer = NoAnswer
    /\ call = NoEntry
    /\ generators = << >>

NextThreads == ReadClock \/ RunHandler

SpecThreads == InitThreads /\ [][NextThreads]_vars

(***************************************************************************)
(* A UUID48Timestamp that a caller drives directly (program = "instance"), *)
(* as the tests of src/unnamed/part_000 do, with what each call found and  *)
(* how often it read the clock recorded in call; and the conversions       *)
(* _timestampToBuffer and bufferToTimestamp on inputs drawn in Init        *)
(* (program = "bytes").                                                    *)
(***************************************************************************)
\* Entries of generate() one call may make: the first, and those of
\* _waitForNextMillisecond while the clock is back at lastSystemTime
MaxReads == 3

\* One entry of UUID48Timestamp.generate() with Date.now() = now: the entry
\* of the caller (first), or the one _waitForNextMillisecond makes
EnterGenerate(now, first) ==
    LET g == generate(now)
        here == Pair(lastSystemTime, subMillisecondCounter)
        same == IF g.waiting \/ ~g.out.ok THEN call.same
                ELSE IF ret.ok /\ g.out.value = ret.value
                THEN call.same + 1
                ELSE 1
    IN /\ systemTime' = now
       /\ lastSystemTime' = g.lastSystemTime
       /\ subMillisecondCounter' = g.subMillisecondCounter
       /\ calls' = IF first THEN calls + 1 ELSE calls
       /\ call' = IF first
                  THEN [found |-> here,
                        left |-> IF ret.ok THEN here ELSE call.left,
                        reads |-> 1,
                        run |-> IF MsLess(lastSystemTime, now) THEN 1
                                ELSE IF call.run > 0 /\ now = systemTime
                                THEN call.run + 1
                                ELSE 0,
                        ahead |-> MsLess(systemTime, lastSystemTime),
                        same |-> same]
                  ELSE [call EXCEPT !.reads = call.reads + 1,
                                    !.same = same]
       /\ IF g.waiting
          THEN pc' = "polling" /\ UNCHANGED ret
          ELSE pc' = "idle" /\ ret' = g.out
       /\ UNCHANGED <<program, maxSubMs, waitStrategy, state, format, arg,
                      prev, defaultFormat, batch, answer, threads, generators>>

\* instance.generate(), called by the user of the instance
InstanceGenerate ==
    /\ program = "instance"
    /\ pc = "idle"
    /\ calls < MaxCalls
    /\ \E now \in ClockValues : EnterGenerate(now, TRUE)

\* _waitForNextMillisecond leaving its loop after one reading, whatever it is
WaitForNextMillisecondOnce ==
    /\ program = "instance"
    /\ pc = "polling"
    /\ \E now \in ClockValues :
        /\ systemTime' = now
        /\ pc' = "regenerate"
    /\ UNCHANGED <<program, lastSystemTime, subMillisecondCounter, maxSubMs,
                   waitStrategy, state, format, calls, arg, ret, prev>>
    /\ UNCHANGED <<defaultFormat, batch, answer, threads, call, generators>>

\* _waitForNextMillisecond: one test of while (BigInt(Date.now()) ===
\* this.lastSystemTime), which is left when the reading differs
WaitForNextMillisecond ==
    /\ program = "instance"
    /\ pc = "polling"
    /\ \E now \in ClockValues :
        /\ systemTime' = now
        /\ pc' = IF now = lastSystemTime THEN "polling" ELSE "regenerate"
    /\ UNCHANGED <<program, lastSystemTime, subMillisecondCounter, maxSubMs,
                   waitStrategy, state, format, calls, arg, ret, prev>>
    /\ UNCHANGED <<defaultFormat, batch, answer, threads, call, generators>>

\* _waitForNextMillisecond: return this.generate(), which reads the clock
\* again
GenerateAgain ==
    /\ program = "instance"
    /\ pc = "regenerate"
    /\ \E now \in ClockValues :
        /\ now = lastSystemTime => call.reads < MaxReads
        /\ EnterGenerate(now, FALSE)

\* Timestamps handed to _timestampToBuffer: the clock values, and values
\* with a different byte in every position
Timestamps ==
    ClockValues \cup {Ms(1 * 65536 + 2 * 256 + 3, 4 * 65536 + 5 * 256 + 6),
                      Ms(255 * 65536 + 128 * 256 + 64, 32 * 65536 + 16 * 256 + 8),
                      Ms(0, 256), Ms(0, 65536), Ms(256, 0), Ms(65536, 0)}

\* Buffers handed to bufferToTimestamp: of 6 bytes, and shorter and longer
Buffers ==
    FixedBuffers \cup SeqsUpTo(ByteValues, 1)
    \cup {<< 0, 0, 0, 0, 0, 1 >>, << 0, 0, 0, 0, 1, 0 >>, << 0, 0, 0, 1, 0, 0 >>,
          << 0, 0, 1, 0, 0, 0 >>, << 0, 1, 0, 0, 0, 0 >>, << 1, 0, 0, 0, 0, 0 >>,
          << 1, 2, 3, 4, 5 >>, << 1, 2, 3, 4, 5, 6, 7 >>}

\* _timestampToBuffer of the input timestamp, or of what bufferToTimestamp
\* returned; ret holds the buffer or the Error
TimestampToBuffer ==
    /\ program = "bytes"
    /\ \/ /\ pc = "idle"
          /\ "timestamp" \in DOMAIN arg
          /\ ret' = _timestampToBuffer(arg.timestamp)
          /\ pc' = "buffer"
       \/ /\ pc = "timestamp"
          /\ answer.ok
          /\ ret' = _timestampToBuffer(answer.value)
          /\ pc' = "timestamp-buffer"
    /\ UNCHANGED <<program, lastSystemTime, subMillisecondCounter, maxSubMs,
                   waitStrategy, state, format, calls, systemTime, arg, prev>>
    /\ UNCHANGED <<defaultFormat, batch, answer, threads, call, generators>>

\* UUID48Timestamp.bufferToTimestamp of the input buffer, or of what
\* _timestampToBuffer returned; answer holds the timestamp or the Error
BufferToTimestamp ==
    /\ program = "bytes"
    /\ \/ /\ pc = "idle"
          /\ "buffer" \in DOMAIN arg
          /\ answer' = bufferToTimestamp(arg.buffer)
          /\ pc' = "timestamp"
       \/ /\ pc = "buffer"
          /\ ret.ok
          /\ answer' = bufferToTimestamp(ret.value)
          /\ pc' = "buffer-timestamp"
    /\ UNCHANGED <<program, lastSystemTime, subMillisecondCounter, maxSubMs,
                   waitStrategy, state, format, calls, systemTime, arg, ret,
                   prev>>
    /\ UNCHANGED <<defaultFormat, batch, threads, call, generators>>

\* new UUID48Timestamp(options) with a small modulus and either strategy,
\* or the input of a conversion
InitInstance ==
    /\ \/ /\ program = "instance"
          /\ arg = << >>
          /\ \E m \in 1..MaxModulus, w \in {"increment", "wait"} :
               LET made == UUID48TimestampConstructor(
                               [maxSubMs |-> m, waitStrategy |-> w])
               IN /\ lastSystemTime = made.value.lastSystemTime
                  /\ subMillisecondCounter = made.value.subMillisecondCounter
                  /\ maxSubMs = made.value.maxSubMs
                  /\ waitStrategy = made.value.waitStrategy
       \/ /\ program = "bytes"
          /\ \/ \E t \in Timestamps : arg = [timestamp |-> t]
             \/ \E b \in Buffers : arg = [buffer |-> b]
          /\ lastSystemTime = Ms(0, 0)
          /\ subMillisecondCounter = 0
          /\ maxSubMs = 4096
          /\ waitStrategy = "increment"
    /\ state = [lastMs |-> Ms(0, 0), seq12 |-> 0]
    /\ pc = "idle"
    /\ format = ""
    /\ calls = 0
    /\ systemTime = Ms(0, 0)
    /\ ret = NoCall
    /\ prev = << >>
    /\ defaultFormat = ""
    /\ batch = NoBatch
    /\ answer = NoAnswer
    /\ threads = << >>
    /\ call = NoEntry
    /\ generators = << >>

NextInstance ==
    \/ InstanceGenerate
    \/ WaitForNextMillisecond
    \/ GenerateAgain
    \/ TimestampToBuffer
    \/ BufferToTimestamp

SpecInstance == InitInstance /\ [][NextInstance]_vars

\* The clock keeps being read: the loop of _waitForNextMillisecond goes on
\* until a reading differs from lastSystemTime, and the generate() it then
\* calls runs.
FairInstance ==
    SpecInstance /\ WF_vars(WaitForNextMillisecond) /\ WF_vars(GenerateAgain)

(***************************************************************************)
(* A program with several generators: the defaultGenerator of the module,  *)
(* the algorithm of one TimestampGenerator and one UUID48Timestamp the     *)
(* caller made. generators maps each object to its fields; arg names the   *)
(* operation that entered generate() last and what it was called on.       *)
(***************************************************************************)
GeneratorNames == {"defaultGenerator", "algorithm", "instance"}

\* What an operation is called on: the functions of the module, a
\* TimestampGenerator, a UUID48Timestamp
Callers == {"module", "TimestampGenerator", "UUID48Timestamp"}

\* Entries of generate() in a behaviour of this program
MaxEntries == 3

\* Date.now() as the calls of this program read it: two readings a
\* millisecond apart, and one above 2^48-1
GeneratorsClock == {Ms(0, 1), Ms(0, 2), Ms(Limb, 0)}

\* Every generate(format) running on the defaultGenerator of the module
GeneratorOfModule(on) == "defaultGenerator"

\* The object whose generate() a generate of the caller runs:
\* defaultGenerator.generate(), this.algorithm.generate(), or the
\* UUID48Timestamp itself
GeneratorOf(on) ==
    CASE on = "module" -> "defaultGenerator"
      [] on = "TimestampGenerator" -> "algorithm"
      [] OTHER -> "instance"

\* UUID48Timestamp.generate() on the object with fields self, with
\* Date.now() = now
GenerateOf(self, now) ==
    IF now = self.lastSystemTime
    THEN LET counter == self.subMillisecondCounter + 1
         IN IF counter >= self.maxSubMs
            THEN IF self.waitStrategy = "wait"
                 THEN Effect(self.lastSystemTime, counter, TRUE, Throw(""))
                 ELSE LET incrementedTime == MsInc(now)
                      IN Effect(incrementedTime, 0, FALSE,
                                _timestampToBuffer(incrementedTime))
            ELSE Effect(self.lastSystemTime, counter, FALSE,
                        _timestampToBuffer(now))
    ELSE IF MsLess(self.lastSystemTime, now)
    THEN Effect(now, 0, FALSE, _timestampToBuffer(now))
    ELSE Effect(MsInc(self.lastSystemTime), 0, FALSE,
                _timestampToBuffer(MsInc(self.lastSystemTime)))

\* format = "base64url" of the module, format = this.defaultFormat of a
\* TimestampGenerator; UUID48Timestamp.generate() takes no format
FormatOf(on) ==
    IF on = "UUID48Timestamp" THEN ""
    ELSE IF on = "module" THEN "base64url" ELSE defaultFormat

\* One entry of generate() for the call made, with Date.now() = now
EnterOn(made, now, fmt) ==
    LET name == GeneratorOf(made.on)
        g == GenerateOf(generators[name], now)
        out == IF made.on = "UUID48Timestamp" THEN g.out
               ELSE GenerateOutcome(g.out, fmt)
    IN /\ generators' =
              [generators EXCEPT ![name] =
                   [@ EXCEPT !.lastSystemTime = g.lastSystemTime,
                             !.subMillisecondCounter =
                                 g.subMillisecondCounter]]
       /\ arg' = made
       /\ format' = fmt
       /\ calls' = calls + 1
       /\ answer' = NoAnswer
       /\ IF g.waiting
          THEN pc' = "polling" /\ UNCHANGED <<ret, batch>>
          ELSE /\ ret' = out
               /\ batch' = BatchPush(out)
               /\ pc' = IF batch'.status = "running" THEN "batch" ELSE "idle"
       /\ UNCHANGED <<program, lastSystemTime, subMillisecondCounter,
                      maxSubMs, waitStrategy, state, systemTime, prev,
                      defaultFormat, threads, call>>

\* generate() of the module, of the TimestampGenerator or of the
\* UUID48Timestamp, the first two with their default format
CallGenerate ==
    /\ program = "generators"
    /\ pc = "idle"
    /\ calls < MaxEntries
    /\ \E on \in Callers, now \in GeneratorsClock :
           EnterOn([op |-> "generate", on |-> on], now, FormatOf(on))

\* _waitForNextMillisecond of the object whose generate() is waiting: one
\* test of the busy-wait loop
CallPoll ==
    /\ program = "generators"
    /\ pc = "polling"
    /\ \E now \in GeneratorsClock :
           pc' = IF now = generators[GeneratorOf(arg.on)].lastSystemTime
                 THEN "polling" ELSE "regenerate"
    /\ UNCHANGED <<program, lastSystemTime, subMillisecondCounter, maxSubMs,
                   waitStrategy, state, format, calls, systemTime, arg, ret,
                   prev>>
    /\ UNCHANGED <<defaultFormat, batch, answer, threads, call, generators>>

\* _waitForNextMillisecond: return this.generate()
CallRegenerate ==
    /\ program = "generators"
    /\ pc = "regenerate"
    /\ calls < MaxEntries
    /\ \E now \in GeneratorsClock : EnterOn(arg, now, format)

\* TimestampGenerator.generateBatch(count, format) up to its first
\* this.generate(format), or to its throw
CallGenerateBatch ==
    /\ program = "generators"
    /\ pc = "idle"
    /\ calls < MaxEntries
    /\ \E count \in {Count(n) : n \in 0..MaxBatch} :
        IF ~IsPositiveInteger(count)
        THEN /\ batch' = [NoBatch EXCEPT
                              !.count = count,
                              !.status = "thrown",
                              !.error = "Count must be a positive integer",
                              !.entered = calls]
             /\ UNCHANGED pc
        ELSE /\ calls + count.n <= MaxEntries
             /\ batch' = [NoBatch EXCEPT
                              !.count = count,
                              !.format = defaultFormat,
                              !.status = "running",
                              !.entered = calls]
             /\ pc' = "batch"
    /\ arg' = [op |-> "generateBatch", on |-> "TimestampGenerator"]
    /\ answer' = NoAnswer
    /\ UNCHANGED <<program, lastSystemTime, subMillisecondCounter, maxSubMs,
                   waitStrategy, state, format, calls, systemTime, ret, prev,
                   defaultFormat, threads, call, generators>>

\* One iteration of the loop of generateBatch: this.generate(format)
CallBatchGenerate ==
    /\ program = "generators"
    /\ pc = "batch"
    /\ calls < MaxEntries
    /\ \E now \in GeneratorsClock : EnterOn(arg, now, batch.format)

\* A Base64URL identifier handed to the operations that read one
QueryIdentifier == Str(<< "A", "A", "A", "A", "A", "A", "A", "B" >>)

\* Date.now() as getTimestampAge reads it
QueryClock == {Ms(0, 2)}

\* UUID48Timestamp.getConfig() on the object with fields self
getConfig(self) ==
    [maxSubMs |-> self.maxSubMs, waitStrategy |-> self.waitStrategy]

\* TimestampGenerator.getConfig()
getConfigOfTimestampGenerator(self) ==
    [maxSubMs |-> getConfig(self).maxSubMs,
     waitStrategy |-> getConfig(self).waitStrategy,
     defaultFormat |-> defaultFormat]

\* The operations that read an identifier or the configuration, each called
\* once after a generate: validate and getConfig of the TimestampGenerator
\* (which run validate of the module and getConfig of its algorithm), and
\* convert, timestampToDate, getTimestampAge and isTimestampFresh of the
\* module
CallValidate ==
    /\ program = "generators"
    /\ pc = "idle"
    /\ answer = NoAnswer
    /\ answer' = [op |-> "validate", on |-> "TimestampGenerator",
                  outcome |-> validate(QueryIdentifier,
                                       FormatOf("TimestampGenerator"))]
    /\ UNCHANGED <<program, lastSystemTime, subMillisecondCounter, maxSubMs,
                   waitStrategy, state, pc, format, calls, systemTime, arg,
                   ret, prev, defaultFormat, batch, threads, call,
                   generators>>

CallConvert ==
    /\ program = "generators"
    /\ pc = "idle"
    /\ answer = NoAnswer
    /\ answer' = [op |-> "convert", on |-> "module",
                  outcome |-> convert(QueryIdentifier, "base64url", "hex")]
    /\ UNCHANGED <<program, lastSystemTime, subMillisecondCounter, maxSubMs,
                   waitStrategy, state, pc, format, calls, systemTime, arg,
                   ret, prev, defaultFormat, batch, threads, call,
                   generators>>

CallTimestampToDate ==
    /\ program = "generators"
    /\ pc = "idle"
    /\ answer = NoAnswer
    /\ answer' = [op |-> "timestampToDate", on |-> "module",
                  outcome |-> timestampToDate(QueryIdentifier, "base64url")]
    /\ UNCHANGED <<program, lastSystemTime, subMillisecondCounter, maxSubMs,
                   waitStrategy, state, pc, format, calls, systemTime, arg,
                   ret, prev, defaultFormat, batch, threads, call,
                   generators>>

CallGetTimestampAge ==
    /\ program = "generators"
    /\ pc = "idle"
    /\ answer = NoAnswer
    /\ \E now \in QueryClock :
           answer' = [op |-> "getTimestampAge", on |-> "module",
                      outcome |-> getTimestampAge(QueryIdentifier,
                                                  "base64url", now)]
    /\ UNCHANGED <<program, lastSystemTime, subMillisecondCounter, maxSubMs,
                   waitStrategy, state, pc, format, calls, systemTime, arg,
                   ret, prev, defaultFormat, batch, threads, call,
                   generators>>

CallIsTimestampFresh ==
    /\ program = "generators"
    /\ pc = "idle"
    /\ answer = NoAnswer
    /\ \E now \in QueryClock :
           answer' = [op |-> "isTimestampFresh", on |-> "module",
                      outcome |-> Return(isTimestampFresh(QueryIdentifier, 1,
                                                          "base64url", now))]
    /\ UNCHANGED <<program, lastSystemTime, subMillisecondCounter, maxSubMs,
                   waitStrategy, state, pc, format, calls, systemTime, arg,
                   ret, prev, defaultFormat, batch, threads, call,
                   generators>>

CallGetConfig ==
    /\ program = "generators"
    /\ pc = "idle"
    /\ answer = NoAnswer
    /\ answer' = [op |-> "getConfig", on |-> "TimestampGenerator",
                  outcome |->
                      Return(getConfigOfTimestampGenerator(
                                 generators[GeneratorOf(
                                     "TimestampGenerator")]))]
    /\ UNCHANGED <<program, lastSystemTime, subMillisecondCounter, maxSubMs,
                   waitStrategy, state, pc, format, calls, systemTime, arg,
                   ret, prev, defaultFormat, batch, threads, call,
                   generators>>

\* const defaultGenerator = new UUID48Timestamp(), new
\* TimestampGenerator(options) and new UUID48Timestamp(options), the last
\* two with one wait strategy each
InitGenerators ==
    /\ program = "generators"
    /\ \E options \in BatchOptions :
           LET made == TimestampGeneratorConstructor(options)
               w == IF options.waitStrategy = "wait" THEN "increment"
                    ELSE "wait"
           IN /\ defaultFormat = made.value.defaultFormat
              /\ generators =
                     [name \in GeneratorNames |->
                          CASE name = "defaultGenerator" ->
                                   UUID48TimestampConstructor(<< >>).value
                            [] name = "algorithm" -> made.value.algorithm
                            [] OTHER ->
                                   UUID48TimestampConstructor(
                                       [maxSubMs |-> MaxModulus,
                                        waitStrategy |-> w]).value]
    /\ lastSystemTime = Ms(0, 0)
    /\ subMillisecondCounter = 0
    /\ maxSubMs = 4096
    /\ waitStrategy = "increment"
    /\ state = [lastMs |-> Ms(0, 0), seq12 |-> 0]
    /\ pc = "idle"
    /\ format = ""
    /\ calls = 0
    /\ systemTime = Ms(0, 0)
    /\ arg = [op |-> "none", on |-> "module"]
    /\ ret = NoCall
    /\ prev = << >>
    /\ batch = NoBatch
    /\ answer = NoAnswer
    /\ threads = << >>
    /\ call = NoEntry

NextGenerators ==
    \/ CallGenerate
    \/ CallPoll
    \/ CallRegenerate
    \/ CallGenerateBatch
    \/ CallBatchGenerate
    \/ CallValidate
    \/ CallConvert
    \/ CallTimestampToDate
    \/ CallGetTimestampAge
    \/ CallIsTimestampFresh
    \/ CallGetConfig

SpecGenerators == InitGenerators /\ [][NextGenerators]_vars

(***************************************************************************)
(* Properties.                                                             *)
(***************************************************************************)
\* The pair handed to _packUuidV7, in lexicographic order
PairLess(p, q) ==
    MsLess(p.ts48, q.ts48) \/ (p.ts48 = q.ts48 /\ p.seq12 < q.seq12)

\* prev and ret.buffer both hold a buffer UUID48Timestamp.generate() returned
TwoReturned == program = "uuid48" /\ ret.buffer # << >> /\ prev # << >>

\* The last call of TimestampGenerator.generate has completed
Completed == program = "uuid48" /\ pc = "idle" /\ calls > 0

\* C1: the timestamps of the buffers UUID48Timestamp.generate() returns are
\* non-decreasing in call order, whatever the clock readings were (equal,
\* advancing, jumping backward).
C1_TimestampsNonDecreasing ==
    TwoReturned => MsLeq(BytesToMs(prev), BytesToMs(ret.buffer))

\* A call that read a clock value below the timestamp returned before it,
\* and returned a buffer.
C1_BackwardJumpServed ==
    /\ TwoReturned
    /\ pc = "idle"
    /\ MsLess(systemTime, BytesToMs(prev))

\* C2: two successive identifiers of one UUID48Timestamp are strictly
\* increasing as 6-byte big-endian values, also when both calls read the
\* same clock value.
C2_StrictlyIncreasing ==
    TwoReturned => MsLess(BytesToMs(prev), BytesToMs(ret.buffer))

\* C3: a call whose timestamp to emit (the clock reading, or a synthesized
\* lastSystemTime + 1) exceeds 2^48-1 fails with the 48-bit-limit error and
\* returns nothing; a returned buffer encodes the timestamp selected, which
\* is at most 2^48-1.
C3_OutOfRangeFails ==
    Completed =>
        /\ (MsLess(maxValue, lastSystemTime) \/ MsLess(maxValue, systemTime))
            => /\ ~ret.ok
               /\ ret.buffer = << >>
               /\ ret.value = << >>
               /\ ret.error = "Timestamp exceeds 48-bit limit"
        /\ ret.buffer # << >>
            => /\ BytesToMs(ret.buffer) = lastSystemTime
               /\ MsLeq(lastSystemTime, maxValue)

\* A call failed on a synthesized timestamp: the clock read 2^48-1, the
\* counter overflowed and lastSystemTime + 1 is past the limit.
C3_SynthesizedPastLimit ==
    /\ Completed
    /\ systemTime = maxValue
    /\ lastSystemTime = MsInc(maxValue)
    /\ ret.error = "Timestamp exceeds 48-bit limit"

\* C4: generateV7Base64Url (both variants) returns no identifier when the
\* timestamp to pack exceeds 2^48-1: it fails instead of packing the low 48
\* bits.
C4_NoSilentTruncation ==
    (program \in {"node", "web"} /\ ret.ok) => MsLeq(arg.ts48, maxValue)

\* The 16 bytes _packUuidV7 made of arg
Packed == IF program = "pack" THEN ret.value ELSE ret.buffer

\* C5: for every timestamp, sequence value in 0..4095 and tail, the bytes
\* _packUuidV7 returns carry version 0111 in the top nibble of byte 6 and
\* variant 10 in the top bits of byte 8, the sequence in the low nibble of
\* byte 6 and byte 7, and the timestamp big-endian in bytes 0-5.
C5_PackLayout ==
    (program \in {"pack", "node", "web"} /\ ret.ok) =>
        /\ Len(Packed) = 16
        /\ Packed[7] \div 16 = 7
        /\ Packed[9] \div 64 = 2
        /\ (Packed[7] % 16) * 256 + Packed[8] = arg.seq12
        /\ BytesToMs(SubSeq(Packed, 1, 6)) = arg.ts48
        /\ Packed[9] % 64 = arg.randTail8[1] % 64
        /\ SubSeq(Packed, 10, 16) = SubSeq(arg.randTail8, 2, 8)

\* C6: in the web generator the (timestamp, seq12) pair of each identifier
\* is strictly greater than the pair of the identifier before it, for every
\* clock reading, so no pair is emitted twice.
C6_WebPairStrictlyIncreasing ==
    (program = "web" /\ prev # << >>) => PairLess(prev, arg)

\* A web call that read a clock value below lastMs while seq12 was 4095.
C6_BackwardJumpAtWrap ==
    /\ program = "web"
    /\ prev # << >>
    /\ MsLess(systemTime, prev.ts48)
    /\ prev.seq12 = 4095

\* C7: the Node generator never emits a timestamp below one it emitted
\* before (so lastMs, the timestamp last emitted, never decreases), also
\* when the clock moves backward.
C7_NodeNeverRegresses ==
    (program = "node" /\ prev # << >>) => MsLeq(prev.ts48, arg.ts48)

\* C8: decodeBase64URL(encodeBase64URL(b)) = b for every byte string b.
C8_DecodeEncode ==
    (program = "codec" /\ pc = "encoded-decoded") =>
        ret.ok /\ ret.value = arg.buffer

\* A round trip of a buffer whose encoding needs both substitutions and
\* padding.
C8_RoundTripOfPaddedBuffer ==
    /\ program = "codec"
    /\ pc = "encoded-decoded"
    /\ arg.buffer = << 251, 255 >>

\* C9: encodeBase64URL(decodeBase64URL(t)) = t for every text t that
\* decodeBase64URL accepts, texts of a length that is no multiple of 4
\* included.
C9_EncodeDecode ==
    (program = "codec" /\ pc = "decoded-encoded") => ret.value = arg.str

\* C10: a successful generate(format) of the 48-bit generator returns 6
\* bytes for "buffer", 12 hex characters for "hex" and 8 characters of
\* [A-Za-z0-9_-] for "base64url"; an identifier of generateV7Base64Url is
\* 22 characters of [A-Za-z0-9_-].
C10_OutputLengths ==
    /\ (Completed /\ ret.ok) =>
        CASE format = "buffer" ->
                 /\ Len(ret.value) = 6
                 /\ \A i \in 1..Len(ret.value) : ret.value[i] \in 0..255
          [] format = "hex" ->
                 /\ Len(ret.value) = 12
                 /\ Range(ret.value) \subseteq Range(HexDigits)
          [] format = "base64url" ->
                 /\ Len(ret.value) = 8
                 /\ Range(ret.value) \subseteq UrlChars
          [] OTHER -> FALSE
    /\ (program \in {"node", "web"} /\ ret.ok) =>
        /\ Len(ret.value) = 22
        /\ Range(ret.value) \subseteq UrlChars

\* A 128-bit identifier whose standard encoding ends in padding and holds
\* "/".
C10_PaddedIdentifier ==
    /\ program \in {"node", "web"}
    /\ ret.ok
    /\ ret.buffer[16] = 255
    /\ "_" \in Range(ret.value)

\* Characters outside the Base64URL alphabet that the claims name: those of
\* standard Base64, its padding, and whitespace
ForeignChars == {"+", "/", "=", " ", "\n"}

\* validate(arg.timestamp, arg.fromFormat) has returned into ret
Validated == program = "facade" /\ pc = "validated"

\* C11: a string holding "+", "/", "=" or whitespace is rejected by the
\* Base64URL validator (isValidBase64URL is false, decodeBase64URL throws,
\* validate(s, "base64url") is false), and validate(s, "hex") is false for
\* every string whose length is not 12.
C11_ForeignCharactersRejected ==
    /\ (program = "codec" /\ pc = "checked"
            /\ Range(arg.str) \cap ForeignChars # {}) => ret.value = FALSE
    /\ (program = "codec" /\ pc = "decoded"
            /\ Range(arg.str) \cap ForeignChars # {}) => ~ret.ok
    /\ (Validated /\ arg.timestamp.type = "string") =>
          /\ (arg.fromFormat = "base64url"
                /\ Range(arg.timestamp.data) \cap ForeignChars # {})
             => ret.value = FALSE
          /\ (arg.fromFormat = "hex" /\ Len(arg.timestamp.data) # 12)
             => ret.value = FALSE

\* validate(s, "hex") has answered false for 13 hex digits.
C11_OverlongHexRejected ==
    /\ Validated
    /\ arg.fromFormat = "hex"
    /\ arg.timestamp.type = "string"
    /\ Len(arg.timestamp.data) = 13
    /\ Range(arg.timestamp.data) \subseteq HexChars
    /\ ret = Return(FALSE)

\* An identifier of format f as the formats are laid out: 8 characters of
\* the Base64URL alphabet, 12 hex digits, or 6 bytes
WellFormed(v, f) ==
    CASE f = "base64url" ->
            v.type = "string" /\ Len(v.data) = 8 /\ Range(v.data) \subseteq UrlChars
      [] f = "hex" ->
            v.type = "string" /\ Len(v.data) = 12 /\ Range(v.data) \subseteq HexChars
      [] f = "buffer" -> v.type = "buffer" /\ Len(v.data) = 6
      [] OTHER -> FALSE

\* C12: validate(value, format) never raises: for every value (null,
\* undefined, of a wrong type, of a wrong length, over a wrong alphabet) and
\* every format token, also an unknown one, it returns a boolean, and that
\* boolean is false for null, for undefined and for every value that is not
\* a well-formed identifier of the named format.
C12_ValidateNeverRaises ==
    Validated =>
        /\ ret.ok
        /\ ret.value \in BOOLEAN
        /\ arg.timestamp.type \in {"null", "undefined"} => ret.value = FALSE
        /\ ~WellFormed(arg.timestamp, arg.fromFormat) => ret.value = FALSE

\* validate has answered false for a string under an unknown format token.
C12_UnknownFormatAnswered ==
    /\ Validated
    /\ arg.fromFormat \notin Formats
    /\ arg.timestamp.type = "string"
    /\ ret = Return(FALSE)

\* convert is being applied to an 8-character Base64URL identifier, towards
\* hex or towards a buffer
ConvertsIdentifier ==
    /\ program = "facade"
    /\ arg.fromFormat = "base64url"
    /\ arg.toFormat \in {"hex", "buffer"}
    /\ arg.timestamp.type = "string"
    /\ Len(arg.timestamp.data) = 8
    /\ Range(arg.timestamp.data) \subseteq UrlChars

\* C13: for every valid 8-character Base64URL identifier s,
\* convert(s, "base64url", "hex") is a string h of 12 lowercase hex digits
\* with convert(h, "hex", "base64url") = s, and
\* convert(convert(s, "base64url", "buffer"), "buffer", "base64url") = s.
C13_ConvertRoundTrip ==
    ConvertsIdentifier =>
        /\ pc = "converted" =>
              /\ ret.ok
              /\ arg.toFormat = "hex" =>
                    /\ ret.value.type = "string"
                    /\ Len(ret.value.data) = 12
                    /\ Range(ret.value.data) \subseteq Range(HexDigits)
        /\ pc = "converted-back" => ret = Return(arg.timestamp)

\* An identifier holding "-" and "_" has come back from hex unchanged.
C13_UrlCharactersRoundTrip ==
    /\ ConvertsIdentifier
    /\ arg.toFormat = "hex"
    /\ pc = "converted-back"
    /\ {"-", "_"} \subseteq Range(arg.timestamp.data)
    /\ ret = Return(arg.timestamp)

\* s.toLowerCase() of a string of hex digits
LowerHex(s) ==
    [i \in 1..Len(s) |->
        IF s[i] \in Range(UpperHexDigits) THEN HexDigits[HexValue(s[i]) + 1]
        ELSE s[i]]

\* validate or convert is being applied to a string as hex
HexCall ==
    /\ program = "facade"
    /\ arg.fromFormat = "hex"
    /\ arg.timestamp.type = "string"

\* C14 as stated: validate(value, "hex") is true exactly for the strings of
\* 12 characters over [0-9a-f], and convert(value, "hex", "hex") returns
\* every accepted value unchanged.
C14_HexLowercaseOnly ==
    HexCall =>
        /\ pc = "validated" =>
              (ret.value <=> /\ Len(arg.timestamp.data) = 12
                             /\ Range(arg.timestamp.data) \subseteq Range(HexDigits))
        /\ (pc = "converted" /\ arg.toFormat = "hex" /\ ret.ok) =>
              ret.value = arg.timestamp

\* C14 amended: validate(value, "hex") is true exactly for the strings of 12
\* hex digits of either case, and convert(value, "hex", "hex") returns the
\* lowercase form of every accepted value, which is the value itself
\* exactly when it holds no uppercase digit.
C14_HexEitherCase ==
    HexCall =>
        /\ pc = "validated" =>
              (ret.value <=> /\ Len(arg.timestamp.data) = 12
                             /\ Range(arg.timestamp.data) \subseteq HexChars)
        /\ (pc = "converted" /\ arg.toFormat = "hex") =>
              /\ ret.ok <=> /\ Len(arg.timestamp.data) = 12
                            /\ Range(arg.timestamp.data) \subseteq HexChars
              /\ ret.ok => ret.value = Str(LowerHex(arg.timestamp.data))

\* convert(value, "hex", "hex") has returned a string other than the
\* accepted value it was given.
C14_UppercaseNormalised ==
    /\ HexCall
    /\ pc = "converted"
    /\ arg.toFormat = "hex"
    /\ ret.ok
    /\ ret.value # arg.timestamp

\* The options of a constructor call lie outside the configuration space:
\* maxSubMs outside [1, 65536], a waitStrategy other than "increment" and
\* "wait", or, for a TimestampGenerator, a defaultFormat other than the
\* three formats
OutsideConfiguration(made) ==
    \/ /\ "maxSubMs" \in DOMAIN made.options
       /\ (made.options.maxSubMs < 1 \/ made.options.maxSubMs > 65536)
    \/ /\ "waitStrategy" \in DOMAIN made.options
       /\ made.options.waitStrategy \notin {"increment", "wait"}
    \/ /\ made.class = "TimestampGenerator"
       /\ "defaultFormat" \in DOMAIN made.options
       /\ made.options.defaultFormat \notin {"base64url", "hex", "buffer"}

\* C15: constructing a UUID48Timestamp or a TimestampGenerator fails
\* whenever maxSubMs is outside [1, 65536] (0 included), whenever
\* waitStrategy is not "increment" or "wait", and whenever defaultFormat is
\* not one of the three formats: the constructor throws and no generator
\* comes out of it.
C15_InvalidOptionsRejected ==
    (program = "construct" /\ pc = "constructed" /\ OutsideConfiguration(arg))
        => ~ret.ok

\* generateBatch was entered with a positive integer count
InBatch ==
    /\ program = "batch"
    /\ batch.status \in {"running", "returned", "thrown"}
    /\ batch.count.type = "integer"
    /\ batch.count.n >= 1

\* C16 as stated: for every positive integer n, generateBatch(n), once it
\* has ended, has returned exactly n identifiers.
C16_BatchReturnsAll ==
    (InBatch /\ batch.format = defaultFormat /\ pc = "idle") =>
        /\ batch.status = "returned"
        /\ Len(batch.results) = batch.count.n

\* C16 amended: the identifiers of generateBatch(n) are, in order, what the
\* calls of generate() it makes return (the last one pushed is the value of
\* the last call, the one before it the formatted buffer of the successful
\* call before that), one clock reading per identifier under "increment",
\* and the generator is left where the last call left it; the array holds n
\* identifiers when it is returned, and it is returned unless a call
\* fails: then generateBatch fails with the error of that call and returns
\* nothing, after fewer than n identifiers.
C16_BatchAsSuccessiveCalls ==
    (InBatch /\ pc \in {"idle", "batch"}) =>
        LET k == Len(batch.results)
            n == batch.count.n
        IN /\ batch.status = "running" <=> pc = "batch"
           /\ batch.status = "running" => k < n
           /\ batch.status = "returned" => k = n /\ ret.ok
           /\ batch.status = "thrown" =>
                 k < n /\ ~ret.ok /\ batch.error = ret.error
           /\ (k >= 1 /\ batch.status # "thrown") =>
                 /\ batch.results[k] = ret.value
                 /\ lastSystemTime = BytesToMs(ret.buffer)
           /\ (k >= 2 /\ batch.status # "thrown") =>
                 batch.results[k - 1] = formatOutput(prev, batch.format).value
           /\ (k >= 1 /\ batch.status = "thrown") =>
                 batch.results[k] = formatOutput(prev, batch.format).value
           /\ waitStrategy = "increment" =>
                 calls = batch.entered + k
                         + (IF batch.status = "thrown" THEN 1 ELSE 0)

\* A batch of two, begun after earlier calls, has returned two different
\* identifiers.
C16_SecondBatchReturned ==
    /\ InBatch
    /\ pc = "idle"
    /\ batch.status = "returned"
    /\ batch.count.n = 2
    /\ batch.entered > 0
    /\ batch.results[1] # batch.results[2]

\* C17: generateBatch(count) with a count that is not a positive integer
\* (0, negative, fractional, not a number) fails with the "positive
\* integer" error, returns no identifier, and leaves lastSystemTime and
\* subMillisecondCounter as they were.
C17_InvalidCountRejected ==
    [][(/\ program = "batch"
        /\ batch' # batch
        /\ batch'.status # "none"
        /\ (batch'.count.type # "integer" \/ batch'.count.n <= 0))
       => /\ batch'.status = "thrown"
          /\ batch'.error = "Count must be a positive integer"
          /\ batch'.results = << >>
          /\ lastSystemTime' = lastSystemTime
          /\ subMillisecondCounter' = subMillisecondCounter
          /\ calls' = calls]_vars

\* generateBatch(0) has failed on a generator that had produced identifiers.
C17_ZeroCountAfterCalls ==
    /\ program = "batch"
    /\ batch.status = "thrown"
    /\ batch.count = Count(0)
    /\ batch.error = "Count must be a positive integer"
    /\ calls > 0

\* getTimestampAge or isTimestampFresh has been asked about the identifier
\* generateId() just returned
Asked == program = "module" /\ answer.op # "none"

\* a + k for a small natural k
RECURSIVE MsPlus(_, _)
MsPlus(a, k) == IF k = 0 THEN a ELSE MsPlus(MsInc(a), k - 1)

\* C18 as stated: an identifier just returned by generateId() is never in
\* the future: at a clock reading not below the one used to generate it,
\* getTimestampAge is not negative, and isTimestampFresh(id, maxAgeMs) is
\* true whenever the time elapsed since that reading is at most maxAgeMs.
C18_NeverInTheFuture ==
    (Asked /\ MsLeq(systemTime, answer.now)) =>
        IF answer.op = "getTimestampAge"
        THEN answer.outcome.ok /\ ~answer.outcome.value.negative
        ELSE MsLeq(answer.now, MsPlus(systemTime, answer.maxAgeMs))
                 => answer.outcome.value

\* C18 amended: the identifier carries the timestamp T the call emitted,
\* which is never below the clock reading r the call used; at a clock
\* reading n, getTimestampAge(id) is negative exactly when n < T, and
\* isTimestampFresh(id, maxAgeMs) is true exactly when T <= n <= T +
\* maxAgeMs.  When the call emitted its own reading (T = r), the age at
\* n >= r is not negative and the identifier is fresh exactly when
\* n - r <= maxAgeMs.
C18_AgeAgainstEmittedTimestamp ==
    Asked =>
        LET T == BytesToMs(ret.buffer)
            n == answer.now
        IN /\ MsLeq(systemTime, T)
           /\ answer.outcome.ok
           /\ answer.op = "getTimestampAge" =>
                 /\ answer.outcome.value.negative <=> MsLess(n, T)
                 /\ (T = systemTime /\ MsLeq(systemTime, n)) =>
                        ~answer.outcome.value.negative
           /\ answer.op = "isTimestampFresh" =>
                 /\ answer.outcome.value <=>
                        MsLeq(T, n) /\ MsLeq(n, MsPlus(T, answer.maxAgeMs))
                 /\ (T = systemTime /\ MsLeq(systemTime, n)) =>
                        (answer.outcome.value <=>
                             MsLeq(n, MsPlus(systemTime, answer.maxAgeMs)))

\* An identifier generated ahead of the clock, after the clock went back,
\* has been found not fresh at the very reading that generated it.
C18_AheadOfClockNotFresh ==
    /\ Asked
    /\ answer.op = "isTimestampFresh"
    /\ answer.now = systemTime
    /\ MsLess(systemTime, BytesToMs(ret.buffer))
    /\ answer.outcome.value = FALSE

\* The last call of generate(format), of the module or of a
\* TimestampGenerator, has completed
Generated == program \in {"uuid48", "module"} /\ pc = "idle" /\ calls > 0

\* C19: an unknown format token handed to generate(format), to
\* TimestampGenerator.generate(format), or to convert(value, fromFormat,
\* toFormat) in either position makes the call fail with an error and
\* return no value.
C19_UnknownFormatFails ==
    /\ (Generated /\ format \notin {"base64url", "hex", "buffer"}) =>
          ~ret.ok /\ ret.value = << >> /\ ret.error # ""
    /\ (program = "facade" /\ pc = "converted"
            /\ {arg.fromFormat, arg.toFormat}
                   \cap {"base64url", "hex", "buffer"} # {arg.fromFormat, arg.toFormat})
       => ~ret.ok /\ ret.value = << >> /\ ret.error # ""

\* convert of a valid identifier towards an unknown format has failed in
\* formatOutput.
C19_UnknownTargetFormat ==
    /\ program = "facade"
    /\ pc = "converted"
    /\ arg.fromFormat = "hex"
    /\ arg.toFormat = "binary"
    /\ arg.timestamp = Str(<< "0", "1", "9", "8", "c", "c", "b", "6", "6", "e", "4", "e" >>)
    /\ ret = Throw("Unsupported format")

\* C20: generate() is not safe for unsynchronized invocations on one
\* instance.  When the invocations are serialized, lastSystemTime never
\* decreases and no returned timestamp is lower than one returned before
\* it; when two invocations interleave between the reading and comparing
\* of the clock and the writing of the fields, a state with such a
\* regression is reachable (C20_InterleavedRegression).
C20_SerializedNeverRegresses ==
    [][program = "serialized" =>
          /\ MsLeq(lastSystemTime, lastSystemTime')
          /\ (ret'.buffer # << >> /\ prev' # << >>) =>
                 MsLeq(BytesToMs(prev'), BytesToMs(ret'.buffer))]_vars

\* Interleaved invocations have returned a timestamp lower than the one
\* returned before it, and lastSystemTime has fallen below that earlier
\* timestamp.
C20_InterleavedRegression ==
    /\ program = "interleaved"
    /\ ret.buffer # << >>
    /\ prev # << >>
    /\ MsLess(BytesToMs(ret.buffer), BytesToMs(prev))
    /\ MsLess(lastSystemTime, BytesToMs(prev))
(***************************************************************************)
(* Properties of the instance driven directly.                             *)
(***************************************************************************)
\* Lexicographic order of (lastSystemTime, subMillisecondCounter) pairs
PairBelow(p, q) ==
    \/ MsLess(p.lastSystemTime, q.lastSystemTime)
    \/ /\ p.lastSystemTime = q.lastSystemTime
       /\ p.subMillisecondCounter < q.subMillisecondCounter

\* A generate() call on the instance has completed
Returned == program = "instance" /\ pc = "idle" /\ calls > 0

\* C21: after every successful generate() the pair (lastSystemTime,
\* subMillisecondCounter) is strictly greater, in lexicographic order, than
\* the pair the previous successful generate() on the instance left, for
\* every clock reading and under both overflow strategies.
C21_PairStrictlyIncreases ==
    (Returned /\ ret.ok /\ call.left # << >>) =>
        PairBelow(call.left, Pair(lastSystemTime, subMillisecondCounter))

\* A successful call under "wait" that overflowed, waited and then read a
\* clock value below lastSystemTime, after an earlier successful call.
C21_WaitedThenBackward ==
    /\ Returned
    /\ ret.ok
    /\ call.left # << >>
    /\ waitStrategy = "wait"
    /\ call.reads = 2
    /\ MsLess(systemTime, call.found.lastSystemTime)

\* The entry of generate() that returned read a clock value below the
\* lastSystemTime it found
ReadBackward == Returned /\ MsLess(systemTime, call.found.lastSystemTime)

\* C22 as stated: a generate() that reads a clock value strictly below
\* lastSystemTime sets lastSystemTime to its previous value plus 1, resets
\* subMillisecondCounter to 0 and emits the new lastSystemTime.
C22_BackwardEmitsSynthesized ==
    ReadBackward =>
        /\ lastSystemTime = MsInc(call.found.lastSystemTime)
        /\ subMillisecondCounter = 0
        /\ ret.ok
        /\ BytesToMs(ret.value) = lastSystemTime

\* C22, amended: a generate() that reads a clock value strictly below
\* lastSystemTime sets lastSystemTime to its previous value plus 1 and
\* resets subMillisecondCounter to 0; it emits the new lastSystemTime, never
\* the lower clock value, when that is at most 2^48-1, and fails with the
\* 48-bit-limit error when it is not.
C22_BackwardSynthesizedOrOutOfRange ==
    ReadBackward =>
        /\ lastSystemTime = MsInc(call.found.lastSystemTime)
        /\ subMillisecondCounter = 0
        /\ IF MsLeq(lastSystemTime, maxValue)
           THEN /\ ret.ok
                /\ BytesToMs(ret.value) = lastSystemTime
                /\ BytesToMs(ret.value) # systemTime
           ELSE /\ ~ret.ok
                /\ ret.error = "exceeds 48-bit limit"

\* A call that found the counter above 0, read a clock value below
\* lastSystemTime and returned a buffer.
C22_BackwardResetsCounter ==
    /\ ReadBackward
    /\ ret.ok
    /\ call.reads = 1
    /\ call.found.subMillisecondCounter > 0

\* Under "increment", the call that returned was the k-th in a row to read
\* the clock value systemTime, the first of them having found lastSystemTime
\* below it
InRun(k) ==
    /\ Returned
    /\ waitStrategy = "increment"
    /\ call.run = k

\* C23 as stated: with maxSubMs = N and "increment", while the clock stays
\* at a value t above the lastSystemTime the first call found, the first N
\* calls emit t and call N+1 emits t+1 and leaves lastSystemTime = t+1 and
\* subMillisecondCounter = 0, no call raising an error.
C23_ModulusCallsPerMillisecond ==
    \A k \in 1..(maxSubMs + 1) :
        InRun(k) =>
            /\ ret.ok
            /\ IF k <= maxSubMs
               THEN BytesToMs(ret.value) = systemTime
               ELSE /\ BytesToMs(ret.value) = MsInc(systemTime)
                    /\ lastSystemTime = MsInc(systemTime)
                    /\ subMillisecondCounter = 0

\* C23, amended: the same for t below 2^48-1; at t = 2^48-1 the first N
\* calls emit t and call N+1 leaves lastSystemTime = 2^48 and
\* subMillisecondCounter = 0 and fails with the 48-bit-limit error.
C23_ModulusCallsWithinRange ==
    \A k \in 1..(maxSubMs + 1) :
        (InRun(k) /\ MsLeq(systemTime, maxValue)) =>
            IF k <= maxSubMs
            THEN /\ ret.ok
                 /\ BytesToMs(ret.value) = systemTime
                 /\ lastSystemTime = systemTime
                 /\ subMillisecondCounter = k - 1
            ELSE /\ lastSystemTime = MsInc(systemTime)
                 /\ subMillisecondCounter = 0
                 /\ IF systemTime # maxValue
                    THEN ret.ok /\ BytesToMs(ret.value) = MsInc(systemTime)
                    ELSE ~ret.ok /\ ret.error = "exceeds 48-bit limit"

\* With the largest modulus of the model, call N+1 at one clock value
\* returned the next millisecond.
C23_BumpedAfterModulus ==
    /\ InRun(maxSubMs + 1)
    /\ maxSubMs = MaxModulus
    /\ ret.ok
    /\ lastSystemTime = MsInc(systemTime)

\* C24: in every reachable state of a UUID48Timestamp, the state a
\* generate() call that failed with the out-of-range error leaves behind
\* included, lastSystemTime is an integer in [0, 2^48-1].
C24_LastSystemTimeWithin48Bits ==
    program = "instance" =>
        /\ lastSystemTime.hi \in 0..(Limb - 1)
        /\ lastSystemTime.lo \in 0..(Limb - 1)

\* C25: generateV7Base64Url never waits, in either variant: when the 12-bit
\* sequence wraps to 0 within one millisecond the call takes lastMs + 1 as
\* its timestamp and returns without polling the clock.
C25_NeverPollsTheClock ==
    program \in {"node", "web"} =>
        /\ pc # "waitNextMs"
        /\ (ret.ok /\ prev # << >> /\ systemTime = prev.ts48 /\ arg.seq12 = 0)
               => arg.ts48 = MsInc(prev.ts48)

\* The call that returned overflowed the counter under "wait" and went
\* through _waitForNextMillisecond
Waited == Returned /\ waitStrategy = "wait" /\ call.reads > 1

\* C26: under "wait" a generate() call that overflows the counter returns
\* only after a clock reading strictly greater than the lastSystemTime it
\* found, and the timestamp it emits is that reading (new-millisecond case),
\* never a synthesized lastSystemTime + 1, whatever the clock does while
\* the call polls.
C26_WaitEmitsClockReading ==
    Waited =>
        /\ MsLess(call.found.lastSystemTime, systemTime)
        /\ ret.ok => BytesToMs(ret.value) = systemTime

ReadAhead == Returned /\ MsLess(call.found.lastSystemTime, systemTime)

\* C28 as stated: when lastSystemTime is ahead of the clock, the first
\* generate() that reads a clock value strictly above lastSystemTime emits
\* exactly that reading, sets lastSystemTime to it and resets the counter
\* to 0.
C28_CatchUpEmitsReading ==
    (ReadAhead /\ call.ahead) =>
        /\ ret.ok
        /\ BytesToMs(ret.value) = systemTime
        /\ lastSystemTime = systemTime
        /\ subMillisecondCounter = 0

\* C28, amended: every generate() that reads a clock value strictly above
\* lastSystemTime, whether or not lastSystemTime was ahead of the clock
\* before, sets lastSystemTime to the reading and resets the counter to 0;
\* it emits exactly the reading when the reading is at most 2^48-1 and
\* fails with the 48-bit-limit error when it is not.
C28_CatchUpWithinRange ==
    ReadAhead =>
        /\ lastSystemTime = systemTime
        /\ subMillisecondCounter = 0
        /\ IF MsLeq(systemTime, maxValue)
           THEN ret.ok /\ BytesToMs(ret.value) = systemTime
           ELSE ~ret.ok /\ ret.error = "exceeds 48-bit limit"

\* A call that found lastSystemTime ahead of the clock value read before
\* it, read a clock value above lastSystemTime and returned it.
C28_CaughtUp ==
    /\ ReadAhead
    /\ call.ahead
    /\ ret.ok
    /\ lastSystemTime = systemTime

\* C29 as stated: a generate() call sets subMillisecondCounter to 0 if and
\* only if its clock reading strictly exceeds the lastSystemTime it found.
\* (A call that does not set the counter to 0 adds 1 to it, so the counter
\* is 0 after a call exactly when the call set it to 0.)
C29_ResetOnlyOnAdvance ==
    Returned =>
        (subMillisecondCounter = 0
            <=> MsLess(call.found.lastSystemTime, systemTime))

\* C29, amended: a generate() call sets subMillisecondCounter to 0 if and
\* only if it changes lastSystemTime, which it does when its clock reading
\* is above lastSystemTime, when it is below, and when it is equal and the
\* counter overflows under "increment"; every other call adds 1 to the
\* counter.
C29_ResetWhenLastSystemTimeChanges ==
    Returned =>
        LET overflow ==
                /\ waitStrategy = "increment"
                /\ call.found.subMillisecondCounter + 1 >= maxSubMs
            reset == systemTime # call.found.lastSystemTime \/ overflow
        IN /\ subMillisecondCounter = 0 <=> reset
           /\ lastSystemTime # call.found.lastSystemTime <=> reset
           /\ ~reset => subMillisecondCounter
                            = call.found.subMillisecondCounter + 1

\* Under "increment" a call that read the lastSystemTime it found, with the
\* counter above 0, overflowed and reset the counter.
C29_OverflowResetsCounter ==
    /\ Returned
    /\ waitStrategy = "increment"
    /\ systemTime = call.found.lastSystemTime
    /\ call.found.subMillisecondCounter > 0
    /\ subMillisecondCounter = 0

(***************************************************************************)
(* Properties of the conversions between timestamps and buffers.           *)
(***************************************************************************)
\* b is the 6-byte big-endian representation of t: byte 0 holds bits
\* 47..40, byte 5 bits 7..0
BigEndian48(b, t) ==
    /\ Len(b) = 6
    /\ \A i \in 1..6 : b[i] \in 0..255
    /\ b[1] * 65536 + b[2] * 256 + b[3] = t.hi
    /\ b[4] * 65536 + b[5] * 256 + b[6] = t.lo

\* C30: for every integer t in [0, 2^48-1], _timestampToBuffer(t) is the
\* 6-byte big-endian representation of t and bufferToTimestamp of it is t;
\* for every 6-byte buffer b, bufferToTimestamp(b) is the value b
\* represents and _timestampToBuffer of it is b.
C30_BufferTimestampInverse ==
    program = "bytes" =>
        /\ (pc = "buffer" /\ MsLeq(arg.timestamp, maxValue))
               => ret.ok /\ BigEndian48(ret.value, arg.timestamp)
        /\ pc = "buffer-timestamp"
               => answer.ok /\ answer.value = arg.timestamp
        /\ (pc = "timestamp" /\ Len(arg.buffer) = 6)
               => answer.ok /\ BigEndian48(arg.buffer, answer.value)
        /\ pc = "timestamp-buffer"
               => ret.ok /\ ret.value = arg.buffer

\* The timestamp 0x010203040506 went to the buffer 01 02 03 04 05 06 and
\* back.
C30_DistinctBytesRoundTrip ==
    /\ program = "bytes"
    /\ pc = "buffer-timestamp"
    /\ ret.value = << 1, 2, 3, 4, 5, 6 >>
    /\ answer.value = Ms(1 * 65536 + 2 * 256 + 3, 4 * 65536 + 5 * 256 + 6)
    /\ answer.value = arg.timestamp

(***************************************************************************)
(* The operations on 6-byte buffers and 8-character strings, each applied  *)
(* once to an input of any length.                                         *)
(***************************************************************************)
\* C31: bufferToTimestamp and timestampToBase64URL end in an Error for every
\* buffer whose length is not 6 and validateBuffer returns false for it;
\* base64URLToTimestamp returns only for a string of 8 characters, and then
\* 6 bytes, so it ends in an Error for every other string.
C31_FixedLengthNeverPadsOrTruncates ==
    program = "fixed" =>
        /\ pc \in {"bufferToTimestamp", "timestampToBase64URL"}
             /\ Len(arg.buffer) # 6
               => ~ret.ok
        /\ pc = "validateBuffer" /\ Len(arg.buffer) # 6 => ret = Return(FALSE)
        /\ pc = "timestampToBase64URL" /\ ret.ok => Len(ret.value) = 8
        /\ pc = "base64URLToTimestamp" /\ ret.ok
               => Len(arg.str) = 8 /\ Len(ret.value) = 6

\* A buffer of 5 bytes was handed to timestampToBase64URL, which threw
C31_FiveBytesRejected ==
    /\ program = "fixed"
    /\ pc = "timestampToBase64URL"
    /\ Len(arg.buffer) = 5
    /\ ~ret.ok

(***************************************************************************)
(* Properties of the program with several generators.                      *)
(***************************************************************************)
\* The object a caller's generate belongs to
OwnGenerator(on) ==
    IF on = "module" THEN "defaultGenerator"
    ELSE IF on = "TimestampGenerator" THEN "algorithm" ELSE "instance"

\* C32: a step changes the fields of a generator only if it is an entry of
\* generate() made by generate or generateBatch on the caller that owns it;
\* no step changes maxSubMs or waitStrategy of any generator, or
\* defaultFormat; validate, convert, timestampToDate, getTimestampAge,
\* isTimestampFresh and getConfig change no field of any generator.
C32_OnlyOwnGenerateWrites ==
    [][program = "generators" =>
          /\ \A name \in GeneratorNames :
                 generators'[name] # generators[name]
                     => /\ calls' = calls + 1
                        /\ arg'.op \in {"generate", "generateBatch"}
                        /\ name = OwnGenerator(arg'.on)
          /\ \A name \in GeneratorNames :
                 /\ generators'[name].maxSubMs = generators[name].maxSubMs
                 /\ generators'[name].waitStrategy
                        = generators[name].waitStrategy
          /\ defaultFormat' = defaultFormat
          /\ answer' # answer /\ answer'.op # "none"
                 => generators' = generators]_vars

\* Each of the three generators has been written by its own caller, and an
\* operation that only reads has run after that
C32_AllThreeGenerated ==
    /\ program = "generators"
    /\ \A name \in GeneratorNames :
           generators[name].lastSystemTime # Ms(0, 0)
    /\ generators["algorithm"].lastSystemTime
           # generators["instance"].lastSystemTime
    /\ answer.op = "getConfig"

(***************************************************************************)
(* Properties of the timestamps one instance returns over its lifetime.    *)
(***************************************************************************)
\* The entry of generate() that returned found the counter at its last
\* value and read the lastSystemTime it found
Overflowed ==
    /\ systemTime = call.found.lastSystemTime
    /\ call.found.subMillisecondCounter + 1 >= maxSubMs

\* C33: every timestamp generate() returns is greater than or equal to the
\* clock value read by the entry of generate() that returned it, and it is
\* that clock value whenever the reading is not below the lastSystemTime
\* the call found and the counter does not overflow.
C33_NeverBehindTheClock ==
    (Returned /\ ret.ok) =>
        /\ MsLeq(systemTime, BytesToMs(ret.value))
        /\ (MsLeq(call.found.lastSystemTime, systemTime) /\ ~Overflowed)
               => BytesToMs(ret.value) = systemTime

\* A call returned a timestamp above the clock value it read, after a call
\* that returned the clock value it read
C33_EmittedAheadOfReading ==
    /\ Returned
    /\ ret.ok
    /\ MsLess(systemTime, BytesToMs(ret.value))
    /\ call.left # << >>
    /\ MsLess(systemTime, call.left.lastSystemTime)

\* C34 as stated: under "increment" with maxSubMs = N, once the counter has
\* overflowed at clock value t, every further call made while the clock
\* still reads t takes the clock-backward branch and emits 1 ms more than
\* the call before it: the k-th call after the overflow, which is call
\* N+1+k at t, emits t+1+k.
C34_LeadGrowsByOnePerCall ==
    \A k \in 1..MaxCalls :
        InRun(maxSubMs + 1 + k) =>
            /\ MsLess(systemTime, call.found.lastSystemTime)
            /\ ret.ok
            /\ BytesToMs(ret.value) = MsPlus(systemTime, 1 + k)

\* C34, amended: the k-th call after the overflow finds lastSystemTime =
\* t+k above the clock, takes the clock-backward branch and leaves
\* lastSystemTime = t+1+k and subMillisecondCounter = 0; it emits t+1+k
\* when that is at most 2^48-1 and fails with the 48-bit-limit error when
\* it is not.
C34_LeadGrowsWithinRange ==
    \A k \in 1..MaxCalls :
        InRun(maxSubMs + 1 + k) =>
            /\ MsLess(systemTime, call.found.lastSystemTime)
            /\ call.found.lastSystemTime = MsPlus(systemTime, k)
            /\ lastSystemTime = MsPlus(systemTime, 1 + k)
            /\ subMillisecondCounter = 0
            /\ IF MsLeq(MsPlus(systemTime, 1 + k), maxValue)
               THEN ret.ok /\ BytesToMs(ret.value) = MsPlus(systemTime, 1 + k)
               ELSE ~ret.ok /\ ret.error = "exceeds 48-bit limit"

\* The second call after the overflow returned a timestamp 3 ms above the
\* clock value that every call of the run read
C34_ThreeAheadOfTheClock ==
    /\ InRun(maxSubMs + 3)
    /\ ret.ok
    /\ BytesToMs(ret.value) = MsPlus(systemTime, 3)

\* C35: after a generate() that failed with the out-of-range error because
\* it read a clock value above 2^48-1, a generate() on the same instance
\* that reads a clock value in [0, 2^48-1] returns an identifier. Stated
\* for the second call of an instance, whose first call can only have left
\* lastSystemTime above 2^48-1 by reading such a clock value.
C35_SucceedsAfterOutOfRangeReading ==
    (/\ Returned
     /\ calls = 2
     /\ MsLess(maxValue, call.found.lastSystemTime)
     /\ MsLeq(systemTime, maxValue))
        => ret.ok

(***************************************************************************)
(* Properties of a generate(format) that fails.                            *)
(***************************************************************************)
\* C36: a generate(format) of the module or of a TimestampGenerator that
\* fails because the format token is unsupported leaves lastSystemTime and
\* subMillisecondCounter of the generator as they were before the call.
\* Stated for the calls that complete in the step that entered them.
C36_UnsupportedFormatLeavesState ==
    [][(/\ program \in {"uuid48", "module"}
        /\ pc = "idle"
        /\ pc' = "idle"
        /\ calls' = calls + 1
        /\ ~ret'.ok
        /\ ret'.error = "Failed to generate timestamp")
           => /\ lastSystemTime' = lastSystemTime
              /\ subMillisecondCounter' = subMillisecondCounter]_vars

(***************************************************************************)
(* Properties of the counter of one instance.                              *)
(***************************************************************************)
\* C37: with maxSubMs = N, under both strategies and for every sequence of
\* clock readings, no timestamp is returned by more than N generate()
\* calls of an instance (the calls that return one timestamp follow one
\* another, the pair of C21 never going down), and at every return from
\* generate() 0 <= subMillisecondCounter < N.
C37_AtMostModulusPerTimestamp ==
    Returned =>
        /\ 0 <= subMillisecondCounter
        /\ subMillisecondCounter < maxSubMs
        /\ ret.ok => call.same <= maxSubMs

\* With the largest modulus of the model, N calls in a row returned one
\* timestamp, the first of them as the first of its millisecond
C37_ModulusCallsReturnedOne ==
    /\ Returned
    /\ ret.ok
    /\ maxSubMs = MaxModulus
    /\ call.same = maxSubMs
    /\ subMillisecondCounter = maxSubMs - 1

(***************************************************************************)
(* Properties of the sequence of the web generator.                        *)
(***************************************************************************)
\* C38: in the web generator a clock reading below lastMs is handled as a
\* reading equal to lastMs: seq12 becomes the seq12 of the identifier
\* before plus 1 modulo 4096 and the timestamp stays at lastMs, moving to
\* lastMs + 1 only when seq12 wraps to 0; a reading above lastMs becomes
\* the timestamp, with the seq12 that was drawn; seq12 is always in
\* [0, 4095].
C38_WebBackwardIsSameMillisecond ==
    (program = "web" /\ prev # << >>) =>
        /\ state.seq12 \in 0..4095
        /\ arg.seq12 = state.seq12
        /\ arg.ts48 = state.lastMs
        /\ IF MsLeq(systemTime, prev.ts48)
           THEN /\ state.seq12 = (prev.seq12 + 1) % 4096
                /\ state.lastMs = IF state.seq12 = 0 THEN MsInc(prev.ts48)
                                  ELSE prev.ts48
           ELSE state.lastMs = systemTime

\* A web call read a clock value below lastMs and returned lastMs with the
\* next seq12
C38_BackwardKeptTimestamp ==
    /\ program = "web"
    /\ prev # << >>
    /\ MsLess(systemTime, prev.ts48)
    /\ state.lastMs = prev.ts48
    /\ state.seq12 = prev.seq12 + 1

====
